---- MODULE Spec2Model ----
(***************************************************************************)
(* Model of the execution-environment resolution and sandboxed-process     *)
(* preparation code of pants:                                              *)
(*   src/python/pants/core/goals/run.py        (_find_what_to_run)         *)
(*   src/python/pants/core/util_rules/adhoc_process_support.py             *)
(***************************************************************************)
EXTENDS Integers, Sequences, FiniteSets, TLC

\* ------------------------------------------------------------------------
\* Bounds of the model
\* ------------------------------------------------------------------------
MaxTargets == 3      \* targets in one root selection
MaxFieldSets == 2    \* runnable field-sets one target satisfies
MaxMaps == 3         \* maps folded into one accumulator by _safe_update
MaxDeps == 2         \* entries of one execution_dependencies list
MaxPathLen == 4      \* characters of a working_directory string
MaxEnvVars == 2       \* variables of one extra_env handed to _runnable_dependency_shim

\* ------------------------------------------------------------------------
\* Generic helpers
\* ------------------------------------------------------------------------
Range(s) == {s[i] : i \in 1..Len(s)}

\* Python's None
None == "None"

\* ========================================================================
\* Strings: a str is the sequence of its characters
\* ========================================================================
RECURSIVE Concat(_)
Concat(ss) == IF ss = <<>> THEN <<>> ELSE Head(ss) \o Concat(Tail(ss))

\* sep.join(ss)
RECURSIVE Join(_, _)
Join(sep, ss) ==
    IF ss = <<>> THEN <<>>
    ELSE IF Len(ss) = 1 THEN ss[1]
    ELSE ss[1] \o sep \o Join(sep, Tail(ss))

\* text.split(c) for a one-character separator
RECURSIVE Split(_, _)
Split(text, c) ==
    IF \E i \in 1..Len(text) : text[i] = c
    THEN LET i == CHOOSE i \in 1..Len(text) :
                      text[i] = c /\ \A j \in 1..(i - 1) : text[j] # c
         IN <<SubSeq(text, 1, i - 1)>> \o Split(SubSeq(text, i + 1, Len(text)), c)
    ELSE <<text>>

\* s.replace(c, r) for a one-character c
Replace(s, c, r) ==
    Concat([i \in 1..Len(s) |-> IF s[i] = c THEN r ELSE <<s[i]>>])

StartsWith(s, prefix) ==
    Len(prefix) <= Len(s) /\ SubSeq(s, 1, Len(prefix)) = prefix

\* shlex: the characters _find_unsafe lets through, [\w@%+=:,./-] (ASCII)
ShlexSafeChars ==
    {"a", "b", "c", "d", "e", "f", "g", "h", "i", "j", "k", "l",
     "m", "n", "o", "p", "q", "r", "s", "t", "u", "v", "w", "x",
     "y", "z", "A", "B", "C", "D", "E", "F", "G", "H", "I", "J",
     "K", "L", "M", "N", "O", "P", "Q", "R", "S", "T", "U", "V",
     "W", "X", "Y", "Z", "0", "1", "2", "3", "4", "5", "6", "7",
     "8", "9", "_", "@", "%", "+", "=", ":", ",", ".", "/", "-"}

\* shlex.quote(s)
ShlexQuote(s) ==
    IF s = <<>> THEN <<"'", "'">>
    ELSE IF \A i \in 1..Len(s) : s[i] \in ShlexSafeChars THEN s
    ELSE <<"'">> \o Replace(s, "'", <<"'", "\"", "'", "\"", "'">>) \o <<"'">>

\* textwrap.dedent(text)
IsBlank(ch) == ch \in {" ", "\t"}

LeadingWhitespace(line) ==
    LET n == CHOOSE n \in 0..Len(line) :
                 /\ \A i \in 1..n : IsBlank(line[i])
                 /\ n < Len(line) => ~ IsBlank(line[n + 1])
    IN SubSeq(line, 1, n)

CommonPrefix(a, b) ==
    LET n == CHOOSE n \in 0..Len(a) :
                 /\ n <= Len(b)
                 /\ \A i \in 1..n : a[i] = b[i]
                 /\ (n < Len(a) /\ n < Len(b)) => a[n + 1] # b[n + 1]
    IN SubSeq(a, 1, n)

RECURSIVE Margin(_)
Margin(indents) ==
    IF Len(indents) = 1 THEN indents[1]
    ELSE CommonPrefix(indents[1], Margin(Tail(indents)))

IsNotWhitespaceOnly(line) == \E i \in 1..Len(line) : ~ IsBlank(line[i])

Dedent(text) ==
    LET raw == Split(text, "\n")
        \* _whitespace_only_re: lines of blanks only become empty
        lines == [i \in 1..Len(raw) |->
                     IF IsNotWhitespaceOnly(raw[i]) THEN raw[i] ELSE <<>>]
        dented == SelectSeq(lines, IsNotWhitespaceOnly)
        indents == [i \in 1..Len(dented) |-> LeadingWhitespace(dented[i])]
        margin == IF indents = <<>> THEN <<>> ELSE Margin(indents)
    IN Join(<<"\n">>,
            [i \in 1..Len(lines) |->
                IF margin # <<>> /\ StartsWith(lines[i], margin)
                THEN SubSeq(lines[i], Len(margin) + 1, Len(lines[i]))
                ELSE lines[i]])

\* the indentation of the template lines of _runnable_dependency_shim
Indent8 == <<" ", " ", " ", " ", " ", " ", " ", " ">>

\* ========================================================================
\* adhoc_process_support.py : _runnable_dependency_shim
\* ========================================================================

\* An ordered Mapping[str, str] is the sequence of its items <<key, value>>.
ExportLine(item) ==
    <<"e", "x", "p", "o", "r", "t", " ">> \o ShlexQuote(item[1]) \o <<"=">> \o ShlexQuote(item[2])

ShimTemplateFirstArgOnly(bash, args, extra_env) ==
    LET binary == ShlexQuote(args[1])
        env_str == Join(<<"\n">>, [i \in 1..Len(extra_env) |-> ExportLine(extra_env[i])])
    IN Indent8 \o <<"#", "!">> \o bash \o <<"\n">>
       \o Indent8 \o env_str \o <<"\n">>
       \o Indent8 \o <<"e", "x", "e", "c", " ">> \o binary \o <<" ", "\"", "$", "@", "\"">> \o <<"\n">>
       \o Indent8

ShimTemplate(bash, args, extra_env) ==
    LET binary == Join(<<" ">>, [i \in 1..Len(args) |-> ShlexQuote(args[i])])
        env_str == Join(<<"\n">>, [i \in 1..Len(extra_env) |-> ExportLine(extra_env[i])])
    IN Indent8 \o <<"#", "!">> \o bash \o <<"\n">>
       \o Indent8 \o env_str \o <<"\n">>
       \o Indent8 \o <<"e", "x", "e", "c", " ">> \o binary \o <<" ", "\"", "$", "@", "\"">> \o <<"\n">>
       \o Indent8

RunnableDependencyShimNoExports(bash, args, extra_env) ==
    Dedent(ShimTemplate(bash, args, <<>>))

RunnableDependencyShim(bash, args, extra_env) ==
    Dedent(ShimTemplate(bash, args, extra_env))

\* ========================================================================
\* run.py : _find_what_to_run
\* ========================================================================

\* The RunFieldSet implementations registered in the union, in registration
\* order.  A field-set is a tuple of fields; a field that is a
\* SecondaryOwnerMixin makes the field-set a secondary one.
FieldSetTypes ==
    << [name |-> "P1", fields |-> <<"Field">>],
       [name |-> "S1", fields |-> <<"Field", "SecondaryOwnerMixin">>],
       [name |-> "P2", fields |-> <<"Field", "Field">>],
       [name |-> "S2", fields |-> <<"SecondaryOwnerMixin">>] >>

\* A target of the root selection, identified by its address; targets differ
\* in nothing else that _find_what_to_run reads.
Target(i) == [address |-> i]
NoTarget == [address |-> 0]      \* primary_target = None

\* The field-sets a target satisfies: the registered types that apply to
\* it, in registration order.  TargetRootsToFieldSets keeps only the targets
\* with at least one applicable field-set.
ApplicableFieldSets(names) ==
    LET is_applicable(field_set) == field_set.name \in names
    IN SelectSeq(FieldSetTypes, is_applicable)

FieldSetTuples ==
    {ApplicableFieldSets(names) :
        names \in {N \in SUBSET {fs.name : fs \in Range(FieldSetTypes)} :
                      Cardinality(N) \in 1..MaxFieldSets}}

\* targets_to_valid_field_sets.mapping : an ordered mapping target ->
\* field-sets, here the sequence of its items() in iteration order.
MappingOf(field_sets_of) ==
    [i \in 1..Len(field_sets_of) |-> <<Target(i), field_sets_of[i]>>]

\* the lambda of lines 245-248
IsPrimaryFieldSet(field_set) ==
    ~ \E i \in 1..Len(field_set.fields) : field_set.fields[i] = "SecondaryOwnerMixin"

IsSecondaryFieldSet(field_set) == ~ IsPrimaryFieldSet(field_set)

\* _partition + RankedFieldSets(*...)
RankedFieldSets(field_sets) ==
    [primary   |-> SelectSeq(field_sets, IsPrimaryFieldSet),
     secondary |-> SelectSeq(field_sets, IsSecondaryFieldSet)]

\* an Optional[RankedFieldSets] is a sequence of length 0 (None) or 1
NoRfs == <<>>

\* the condition of lines 252-256
TakesOver(p_target, p_rfs, rfs) ==
    IF p_target = NoTarget \/ p_rfs = NoRfs
    THEN TRUE
    ELSE rfs.primary # <<>> /\ p_rfs[1].primary = <<>>

\* the condition of lines 259-261
IsTieNoSecondary(p_rfs, rfs) ==
    rfs.primary # <<>> /\ p_rfs[1].primary # <<>>

IsTieNoPrimary(p_rfs, rfs) ==
    rfs.secondary # <<>> /\ p_rfs[1].secondary # <<>>

IsTie(p_rfs, rfs) ==
    \/ (rfs.primary # <<>> /\ p_rfs[1].primary # <<>>)
    \/ (rfs.secondary # <<>> /\ p_rfs[1].secondary # <<>>)

\* line 268: primary_target_rfs.primary or primary_target_rfs.secondary
SelectedTier(rfs) == IF rfs.primary # <<>> THEN rfs.primary ELSE rfs.secondary

NoFieldSet == [name |-> None, fields |-> <<>>]
NoResult == [kind |-> "pending", field_set |-> NoFieldSet, target |-> NoTarget]
Raise(exc) == [kind |-> exc, field_set |-> NoFieldSet, target |-> NoTarget]

\* lines 266-276, after the loop
ChooseFirstFieldSet(p_target, p_rfs) ==
    [kind |-> "ok", field_set |-> SelectedTier(p_rfs[1])[1], target |-> p_target]

ChooseFieldSet(p_target, p_rfs) ==
    IF Len(SelectedTier(p_rfs[1])) > 1
    THEN Raise("AmbiguousImplementationsException")
    ELSE [kind |-> "ok", field_set |-> SelectedTier(p_rfs[1])[1], target |-> p_target]

VARIABLES
    \* --- _find_what_to_run
    mapping,             \* targets_to_valid_field_sets.mapping.items()
    find_i,              \* number of items the for loop has consumed
    primary_target,      \* Target | None
    primary_target_rfs,  \* RankedFieldSets | None
    find_result,         \* what _find_what_to_run returned or raised
    \* --- _safe_update
    su_args,             \* the d2 arguments of the calls made so far, in order
    su_d1,               \* the dict d1 all the calls update
    su_raised,           \* whether the last call raised ValueError
    \* --- _resolve_runnable_dependencies
    deps,                    \* tuple[runnable, ...]
    runnables,               \* the RunInSandboxRequests the engine returned
    digests,                 \* list[Digest]
    shims,                   \* list[FileContent]
    immutable_input_digests, \* dict[str, Digest]
    append_only_caches,      \* dict[str, str]
    rd_pc,                   \* where _resolve_runnable_dependencies is
    \* --- resolve_execution_environment
    request,                 \* ResolveExecutionDependenciesRequest
    run_request_of,          \* the build graph: runnable address -> its run request
    execution_dependencies,  \* Addresses: the roots of the transitive walk
    runnables_digest,        \* Digest
    runnable_dependencies,   \* RunnableDependencies | None
    warned,                  \* whether warn_or_error was called
    transitive,              \* TransitiveTargets | not yet requested
    all_dependencies,        \* the targets sources and packages are taken from
    sources,                 \* SourceFiles digest | not yet requested
    packages,                \* the BuiltPackage digests | not yet requested
    ree_pc,                  \* where resolve_execution_environment is
    ree_result               \* ResolvedExecutionDependencies | the error raised

\* run_adhoc_process
VARIABLES
    ap_request,      \* the AdhocProcessRequest, once asked
    ap_pc,           \* the stage of the invocation
    ap_process,      \* the Process prepare_adhoc_process returned
    ap_executions,   \* how often the process was handed to the engine
    ap_fallible,     \* the FallibleProcessResult
    ap_result,       \* the ProcessResult
    ap_adjusted,     \* the adjusted digest
    ap_log,          \* what was logged, in order
    ap_outcome,      \* the AdhocProcessResult returned
    ap_error         \* the error raised out of the invocation

\* prepare_adhoc_process
VARIABLES
    command_env,     \* dict[str, str]
    input_snapshot,  \* the dirs of the Snapshot of request.input_digest, once got
    work_dir,        \* Digest, once chosen
    prep_pc          \* the Get prepare_adhoc_process is suspended at

\* _parse_relative_directory, called on its own
VARIABLES
    pd_workdir_in,   \* the workdir_in of the call
    pd_relative_to,  \* the Address or str it is resolved against
    pd_result        \* what the call returned, once made

\* the run goal
VARIABLES
    rg_debug_adapter,  \* run_subsystem.debug_adapter
    rg_args,           \* run_subsystem.args, the passthrough arguments
    rg_pc,             \* where the goal rule is
    rg_request,        \* the RunRequest or RunDebugAdapterRequest, once got
    rg_launched,       \* the InteractiveProcesses handed to Effect, in order
    rg_result,         \* the InteractiveProcessResult
    rg_goal            \* the Run value returned, or the error raised

\* _runnable_dependency_shim, called on its own
VARIABLES
    sh_bash,         \* the interpreter path
    sh_args,         \* the argv to wrap
    sh_extra_env,    \* the extra_env mapping, as its items() in order
    sh_result        \* the script returned, once the call was made

find_vars == <<mapping, find_i, primary_target, primary_target_rfs, find_result>>
su_vars == <<su_args, su_d1, su_raised>>

rd_vars == <<deps, runnables, digests, shims, immutable_input_digests,
             append_only_caches, rd_pc>>

ree_vars == <<request, run_request_of, execution_dependencies, runnables_digest,
              runnable_dependencies, warned, transitive, all_dependencies, sources,
              packages, ree_pc, ree_result>>

ap_vars == <<ap_request, ap_pc, ap_process, ap_executions, ap_fallible, ap_result,
             ap_adjusted, ap_log, ap_outcome, ap_error>>
prep_vars == <<command_env, input_snapshot, work_dir, prep_pc>>
pd_vars == <<pd_workdir_in, pd_relative_to, pd_result>>
rg_vars == <<rg_debug_adapter, rg_args, rg_pc, rg_request, rg_launched, rg_result, rg_goal>>
sh_vars == <<sh_bash, sh_args, sh_extra_env, sh_result>>
vars == <<find_vars, su_vars, rd_vars, ree_vars, ap_vars, prep_vars, pd_vars, rg_vars,
          sh_vars>>

\* what the actions of one operation leave alone
not_find_vars == <<pd_vars, su_vars, rd_vars, ree_vars, ap_vars, prep_vars, rg_vars, sh_vars>>
not_su_vars == <<pd_vars, find_vars, rd_vars, ree_vars, ap_vars, prep_vars, rg_vars, sh_vars>>
not_rd_vars == <<pd_vars, find_vars, su_vars, ree_vars, ap_vars, prep_vars, rg_vars, sh_vars>>
not_ree_vars == <<pd_vars, find_vars, su_vars, ap_vars, prep_vars, rg_vars, sh_vars>>
not_ap_vars == <<find_vars, su_vars, rd_vars, ree_vars, prep_vars, pd_vars, rg_vars, sh_vars>>
not_prep_vars == <<find_vars, su_vars, rd_vars, ree_vars, pd_vars, rg_vars, sh_vars>>
not_pd_vars == <<find_vars, su_vars, rd_vars, ree_vars, ap_vars, prep_vars, rg_vars, sh_vars>>
not_rg_vars == <<su_vars, rd_vars, ree_vars, ap_vars, prep_vars, pd_vars, sh_vars>>
not_sh_vars == <<find_vars, su_vars, rd_vars, ree_vars, ap_vars, prep_vars, pd_vars, rg_vars>>

\* a group of variables no call is in progress on
FindIdle ==
    /\ mapping = <<>>
    /\ find_i = 0
    /\ primary_target = NoTarget
    /\ primary_target_rfs = NoRfs
    /\ find_result = [NoResult EXCEPT !.kind = "idle"]

SuIdle ==
    /\ su_args = <<>>
    /\ su_d1 = <<>>
    /\ su_raised = FALSE

RdIdle ==
    /\ deps = <<>>
    /\ runnables = <<>>
    /\ digests = <<>>
    /\ shims = <<>>
    /\ immutable_input_digests = <<>>
    /\ append_only_caches = <<>>
    /\ rd_pc = "idle"

\* Optional[T]: a sequence of length 0 (None) or 1
NoneOpt == <<>>
Some(x) == <<x>>

NoRequest ==
    [address |-> "", execution_dependencies |-> NoneOpt, dependencies |-> NoneOpt]
NoReeResult ==
    [status |-> "pending", error |-> "", digest |-> {}, runnable_dependencies |-> NoneOpt]

ReeIdle ==
    /\ request = NoRequest
    /\ run_request_of = <<>>
    /\ execution_dependencies = <<>>
    /\ runnables_digest = {}
    /\ runnable_dependencies = NoneOpt
    /\ warned = FALSE
    /\ transitive = NoneOpt
    /\ all_dependencies = {}
    /\ sources = NoneOpt
    /\ packages = NoneOpt
    /\ ree_pc = "idle"
    /\ ree_result = NoReeResult

PdIdle ==
    /\ pd_workdir_in = <<>>
    /\ pd_relative_to = [type |-> "Address", spec_path |-> <<>>]
    /\ pd_result = <<>>

ApIdle ==
    /\ ap_request = NoneOpt
    /\ ap_pc = "idle"
    /\ ap_process = NoneOpt
    /\ ap_executions = 0
    /\ ap_fallible = NoneOpt
    /\ ap_result = NoneOpt
    /\ ap_adjusted = NoneOpt
    /\ ap_log = <<>>
    /\ ap_outcome = NoneOpt
    /\ ap_error = ""

PrepIdle ==
    /\ command_env = <<>>
    /\ input_snapshot = NoneOpt
    /\ work_dir = NoneOpt
    /\ prep_pc = "idle"

RgIdle ==
    /\ rg_debug_adapter = FALSE
    /\ rg_args = <<>>
    /\ rg_pc = "idle"
    /\ rg_request = NoneOpt
    /\ rg_launched = <<>>
    /\ rg_result = NoneOpt
    /\ rg_goal = NoneOpt

ShIdle ==
    /\ sh_bash = <<>>
    /\ sh_args = <<>>
    /\ sh_extra_env = <<>>
    /\ sh_result = NoneOpt

FindInit ==
    /\ mapping = <<>>
    /\ find_i = 0
    /\ primary_target = NoTarget
    /\ primary_target_rfs = NoRfs
    /\ find_result = [NoResult EXCEPT !.kind = "requested"]
    /\ SuIdle
    /\ RdIdle
    /\ ReeIdle
    /\ ApIdle
    /\ PrepIdle
    /\ PdIdle
    /\ RgIdle
    /\ ShIdle

\* lines 229-236: the engine answers the TargetRootsToFieldSetsRequest
\* (no_applicable_targets_behavior = error: the mapping is never empty)
FindGetTargetRoots ==
    /\ find_result.kind = "requested"
    /\ \E n \in 1..MaxTargets : \E f \in [1..n -> FieldSetTuples] :
          mapping' = MappingOf(f)
    /\ find_result' = NoResult
    /\ UNCHANGED <<find_i, primary_target, primary_target_rfs, not_find_vars>>

\* one iteration of the for loop, taking the first branch (lines 252-258)
FindLoopTake ==
    /\ find_result.kind = "pending"
    /\ find_i < Len(mapping)
    /\ LET target == mapping[find_i + 1][1]
           rfs == RankedFieldSets(mapping[find_i + 1][2])
       IN /\ TakesOver(primary_target, primary_target_rfs, rfs)
          /\ primary_target' = target
          /\ primary_target_rfs' = <<rfs>>
          /\ find_i' = find_i + 1
          /\ UNCHANGED <<mapping, find_result, not_find_vars>>

\* one iteration of the for loop, raising (lines 259-264)
FindLoopRaise ==
    /\ find_result.kind = "pending"
    /\ find_i < Len(mapping)
    /\ LET rfs == RankedFieldSets(mapping[find_i + 1][2])
       IN /\ ~ TakesOver(primary_target, primary_target_rfs, rfs)
          /\ IsTie(primary_target_rfs, rfs)
          /\ find_result' = Raise("TooManyTargetsException")
          /\ find_i' = find_i + 1
          /\ UNCHANGED <<mapping, primary_target, primary_target_rfs, not_find_vars>>

\* one iteration of the for loop where neither branch is taken
FindLoopSkip ==
    /\ find_result.kind = "pending"
    /\ find_i < Len(mapping)
    /\ LET rfs == RankedFieldSets(mapping[find_i + 1][2])
       IN /\ ~ TakesOver(primary_target, primary_target_rfs, rfs)
          /\ ~ IsTie(primary_target_rfs, rfs)
          /\ find_i' = find_i + 1
          /\ UNCHANGED <<mapping, primary_target, primary_target_rfs, find_result, not_find_vars>>

\* lines 266-276
FindChoose ==
    /\ find_result.kind = "pending"
    /\ find_i = Len(mapping)
    /\ find_result' = ChooseFieldSet(primary_target, primary_target_rfs)
    /\ UNCHANGED <<mapping, find_i, primary_target, primary_target_rfs, not_find_vars>>

FindNext == FindGetTargetRoots \/ FindLoopTake \/ FindLoopRaise \/ FindLoopSkip \/ FindChoose

SpecFind == FindInit /\ [][FindNext]_vars

\* ------------------------------------------------------------------------
\* Properties of _find_what_to_run
\* ------------------------------------------------------------------------
FindDone == find_result.kind \notin {"idle", "requested", "pending"}

HasPrimary(i) == RankedFieldSets(mapping[i][2]).primary # <<>>
OnlySecondary(i) == RankedFieldSets(mapping[i][2]).primary = <<>>
PrimaryTargets == {i \in 1..Len(mapping) : HasPrimary(i)}

\* C1: when one target of the selection has exactly one primary field-set
\* and every other target has only secondary field-sets, resolution returns
\* that primary field-set with that target, whatever secondary field-sets
\* the target also has and wherever the other targets come in the
\* iteration.
C1_SinglePrimaryIsReturned ==
    \A i \in 1..Len(mapping) :
        ( /\ FindDone
          /\ Len(RankedFieldSets(mapping[i][2]).primary) = 1
          /\ \A j \in 1..Len(mapping) : j # i => OnlySecondary(j) )
        => find_result = [kind |-> "ok",
                          field_set |-> RankedFieldSets(mapping[i][2]).primary[1],
                          target |-> mapping[i][1]]

\* C2: when two or more targets of the selection each have a primary
\* field-set, resolution ends with TooManyTargetsException, for every
\* iteration order and whatever other targets are present.
C2_TwoPrimaryTargetsTooMany ==
    (FindDone /\ Cardinality(PrimaryTargets) >= 2)
        => find_result.kind = "TooManyTargetsException"

C2_Witness ==
    /\ FindDone
    /\ Cardinality(PrimaryTargets) = 2
    /\ Len(mapping) = 3
    /\ OnlySecondary(1)
    /\ find_result.kind = "TooManyTargetsException"

\* C3: a returned field-set is the only member of the chosen target's
\* selected tier (primary if non-empty, else secondary) and is returned with
\* that target; when the loop ends on a target whose selected tier holds
\* more than one field-set the call raises
\* AmbiguousImplementationsException instead of returning the first.
C3_NoSilentPick ==
    /\ find_result.kind = "ok" =>
          /\ SelectedTier(primary_target_rfs[1]) = <<find_result.field_set>>
          /\ find_result.target = primary_target
          /\ \E i \in 1..Len(mapping) :
                /\ mapping[i][1] = primary_target
                /\ RankedFieldSets(mapping[i][2]) = primary_target_rfs[1]
    /\ (FindDone /\ find_result.kind # "TooManyTargetsException"
          /\ Len(SelectedTier(primary_target_rfs[1])) > 1)
          => find_result.kind = "AmbiguousImplementationsException"

C3_Witness ==
    /\ find_result.kind = "AmbiguousImplementationsException"
    /\ Len(SelectedTier(primary_target_rfs[1])) = 2
    /\ Len(mapping) >= 2

\* C4: when no target has a primary field-set and two or more targets have
\* (only) secondary field-sets, resolution ends with
\* TooManyTargetsException.
C4_SecondaryTieTooMany ==
    (FindDone /\ PrimaryTargets = {} /\ Len(mapping) >= 2)
        => find_result.kind = "TooManyTargetsException"

C4_Witness ==
    /\ FindDone
    /\ PrimaryTargets = {}
    /\ Len(mapping) = 3
    /\ find_result.kind = "TooManyTargetsException"

\* ========================================================================
\* adhoc_process_support.py : _safe_update
\* ========================================================================

\* A Python dict is the sequence of its items <<key, value>> in insertion
\* order, one item per key; two dicts are equal when their items are.
Keys(d) == {d[i][1] : i \in 1..Len(d)}
Items(d) == Range(d)
Lookup(d, k) == d[CHOOSE i \in 1..Len(d) : d[i][1] = k][2]
IsDict(d) == \A i, j \in 1..Len(d) : d[i][1] = d[j][1] => i = j

\* d[k] = v
SetItem(d, k, v) ==
    IF k \in Keys(d)
    THEN [i \in 1..Len(d) |-> IF d[i][1] = k THEN <<k, v>> ELSE d[i]]
    ELSE Append(d, <<k, v>>)

DictKeys == {"k1", "k2", "k3"}
DictValues == {"D1", "D2"}

\* the maps _safe_update is called on here: every dict over the keys that
\* leaves some key out, in every insertion order
Dicts ==
    {d \in UNION {[1..n -> DictKeys \X DictValues] : n \in 0..Cardinality(DictKeys)} :
        IsDict(d) /\ Keys(d) # DictKeys}

\* line 267: the test that makes _safe_update raise ValueError
Conflicts(d1, k, v) == k \in Keys(d1) /\ Lookup(d1, k) # v

\* the loop of lines 266-269 from the i-th item of d2 on: d1 after the
\* call, and whether the call raised; a call that raises leaves in d1 what
\* the items before the conflicting one wrote
RECURSIVE SafeUpdateFrom(_, _, _)
SafeUpdateFrom(d1, d2, i) ==
    IF i > Len(d2)
    THEN [raised |-> FALSE, d1 |-> d1]
    ELSE IF Conflicts(d1, d2[i][1], d2[i][2])
         THEN [raised |-> TRUE, d1 |-> d1]
         ELSE SafeUpdateFrom(SetItem(d1, d2[i][1], d2[i][2]), d2, i + 1)

RECURSIVE UpdateFrom(_, _, _)
UpdateFrom(d1, d2, i) ==
    IF i > Len(d2)
    THEN d1
    ELSE UpdateFrom(SetItem(d1, d2[i][1], d2[i][2]), d2, i + 1)

SafeUpdateLastWriteWins(d1, d2) ==
    [raised |-> FALSE, d1 |-> UpdateFrom(d1, d2, 1)]

SafeUpdateNoWrite(d1, d2) ==
    [raised |-> SafeUpdateFrom(d1, d2, 1).raised, d1 |-> d1]

\* _safe_update(d1, d2)
SafeUpdate(d1, d2) == SafeUpdateFrom(d1, d2, 1)

SuInit ==
    /\ su_args = <<>>
    /\ su_d1 = <<>>
    /\ su_raised = FALSE
    /\ FindIdle
    /\ RdIdle
    /\ ReeIdle
    /\ ApIdle
    /\ PrepIdle
    /\ PdIdle
    /\ RgIdle
    /\ ShIdle

\* one call _safe_update(d1, d2) on the accumulating dict, as the loop of
\* _resolve_runnable_dependencies makes them
SuCall ==
    /\ ~ su_raised
    /\ Len(su_args) < MaxMaps
    /\ \E d2 \in Dicts :
          /\ su_args' = Append(su_args, d2)
          /\ su_d1' = SafeUpdate(su_d1, d2).d1
          /\ su_raised' = SafeUpdate(su_d1, d2).raised
    /\ UNCHANGED not_su_vars

SuNext == SuCall

SpecSafeUpdate == SuInit /\ [][SuNext]_vars

\* ------------------------------------------------------------------------
\* Properties of _safe_update
\* ------------------------------------------------------------------------
SuDisjoint ==
    \A i, j \in 1..Len(su_args) : i # j => Keys(su_args[i]) \cap Keys(su_args[j]) = {}

\* C5: merging N maps with pairwise disjoint keys never raises and the
\* accumulated map is the key-wise union of the N maps, whatever the order
\* in which they were merged.
C5_DisjointMergeIsUnion ==
    SuDisjoint => /\ ~ su_raised
                  /\ Items(su_d1) = UNION {Items(su_args[i]) : i \in 1..Len(su_args)}

C5_Witness ==
    /\ Len(su_args) = 3
    /\ SuDisjoint
    /\ \A i \in 1..3 : su_args[i] # <<>>
    /\ Len(su_d1) = 3

\* C6: merging two maps that share a key succeeds when the two values under
\* every shared key are equal and raises when they differ under some shared
\* key, whichever of the two is merged first; on success both values of the
\* result are the ones both maps agree on (no last-write-wins).
C6_ConflictIsValueBased ==
    (Len(su_args) = 2 /\ Keys(su_args[1]) \cap Keys(su_args[2]) # {}) =>
        LET a == su_args[1]
            b == su_args[2]
            agree == \A k \in Keys(a) \cap Keys(b) : Lookup(a, k) = Lookup(b, k)
        IN /\ su_raised = ~ agree
           /\ SafeUpdate(SafeUpdate(<<>>, b).d1, a).raised = su_raised
           /\ agree => /\ Items(su_d1) = Items(a) \cup Items(b)
                       /\ Items(SafeUpdate(SafeUpdate(<<>>, b).d1, a).d1) = Items(su_d1)

C6_Witness ==
    /\ Len(su_args) = 2
    /\ su_raised
    /\ \E k \in Keys(su_args[1]) \cap Keys(su_args[2]) :
          Lookup(su_args[1], k) = Lookup(su_args[2], k)
    /\ \E k \in Keys(su_args[1]) \cap Keys(su_args[2]) :
          Lookup(su_args[1], k) # Lookup(su_args[2], k)

\* ========================================================================
\* adhoc_process_support.py : the shim loop of _resolve_runnable_dependencies
\* ========================================================================

\* A Digest is the set of the files of its tree; it is content-addressed,
\* so a digest's fingerprint identifies its content.
EMPTY_DIGEST == {}
FileContent(path, content, is_executable) ==
    [path |-> path, content |-> content, is_executable |-> is_executable]
Fingerprint(digest) == digest

\* A path component: a plain name, or f"shims_{fingerprint}".
PathComponent(name) == <<name, EMPTY_DIGEST>>
ShimDigestPath(shim_digest) == <<"shims_", Fingerprint(shim_digest)>>

BashPath == <<"/", "b", "i", "n", "/", "b", "a", "s", "h">>

\* runnable(name, address) declarations
Declarations ==
    {[name |-> "fmt", address |-> ":formatter"],
     [name |-> "lint", address |-> ":linter"]}

\* What the RunInSandboxRequest of a runnable target can hold: argv and
\* extra_env.
RunCommands ==
    {[args |-> <<<<"/", "b", "i", "n", "/", "f", "m", "t">>, <<"-", "w">>>>, extra_env |-> <<>>],
     [args |-> <<<<"/", "b", "i", "n", "/", "f", "m", "t">>, <<"-", "w">>>>, extra_env |-> << <<<<"X">>, <<"1">>>> >>],
     [args |-> <<<<"/", "b", "i", "n", "/", "l", "i", "n", "t">>>>, extra_env |-> << <<<<"X">>, <<"1">>>> >>],
     [args |-> <<<<"/", "b", "i", "n", "/", "l", "i", "n", "t">>>>, extra_env |-> << <<<<"X">>, <<"2">>>> >>]}

\* the run commands of the two runnable targets of the build graph
RunCommandsOf(address) ==
    LET fmt == <<"/", "b", "i", "n", "/", "f", "m", "t">>
    IN IF address = ":formatter"
       THEN {c \in RunCommands : c.args[1] = fmt}
       ELSE {c \in RunCommands : c.args[1] # fmt}

RunDigest(command) == {FileContent("bin", command.args[1], TRUE)}

ImmutableInputDicts ==
    {<<>>,
     << <<PathComponent("jdk"), {FileContent("java", <<"1">>, TRUE)}>> >>,
     << <<PathComponent("jdk"), {FileContent("java", <<"2">>, TRUE)}>> >>}

AppendOnlyCacheDicts ==
    {<<>>,
     << <<<<"c", "a", "c", "h", "e">>, <<"/", "t", "m", "p", "/", "c", "1">>>> >>,
     << <<<<"c", "a", "c", "h", "e">>, <<"/", "t", "m", "p", "/", "c", "2">>>> >>}

RunInSandboxRequest(command, iid, aoc) ==
    [digest |-> RunDigest(command),
     args |-> command.args,
     extra_env |-> command.extra_env,
     immutable_input_digests |-> iid,
     append_only_caches |-> aoc]

IncompatibleEnvironments ==
    "ValueError: One or more runnable dependencies have mutually incompatible environments."

\* lines 235-242: the try block of the loop body
MergeEnvironments(iid, aoc, runnable) ==
    LET r1 == SafeUpdate(iid, runnable.immutable_input_digests)
        r2 == SafeUpdate(aoc, runnable.append_only_caches)
    IN IF r1.raised
       THEN [raised |-> TRUE, immutable_input_digests |-> r1.d1,
             append_only_caches |-> aoc]
       ELSE [raised |-> r2.raised, immutable_input_digests |-> r1.d1,
             append_only_caches |-> r2.d1]

\* lines 226-233: what one iteration appends to digests and shims
ShimOf(dep, runnable) ==
    FileContent(dep.name,
                RunnableDependencyShim(BashPath, runnable.args, runnable.extra_env),
                TRUE)

Contains(text, part) ==
    \E i \in 1..(Len(text) - Len(part) + 1) :
        SubSeq(text, i, i + Len(part) - 1) = part

EnvX(value) == << <<<<"X">>, value>> >>

Disagree(d1, d2) ==
    \E a \in Items(d1), b \in Items(d2) : a[1] = b[1] /\ a[2] # b[2]

\* ========================================================================
\* adhoc_process_support.py : resolve_execution_environment and
\*                            _resolve_runnable_dependencies
\* ========================================================================

\* ---- the build graph and the engine, as far as the two functions ask it
OwnAddress == ":own"
RunnableAddresses == {":formatter", ":linter"}
MissingAddress == ":missing"

\* the strings an execution_dependencies list can hold
AddressStrings == {":lib", ":pkg", OwnAddress, MissingAddress}

StrItem(address) == [type |-> "str", name |-> "", address |-> address]
RunnableItem(dep) == [type |-> "runnable", name |-> dep.name, address |-> dep.address]

ExecutionDependencyItems ==
    {StrItem(a) : a \in AddressStrings}
    \cup {RunnableItem(dep) : dep \in Declarations}
    \cup {RunnableItem([name |-> "tool", address |-> MissingAddress])}

DependenciesOf(address) ==
    CASE address = OwnAddress -> {":lib"}
      [] address = ":lib" -> {":pkg", ":wheel"}
      [] OTHER -> {}

RECURSIVE Closure(_)
Closure(addresses) ==
    LET next == addresses \cup UNION {DependenciesOf(a) : a \in addresses}
    IN IF next = addresses THEN addresses ELSE Closure(next)

Packageable == {":pkg", ":wheel"}

\* AddressResolution: an address string resolves or the request fails
Resolvable(address) == address # MissingAddress

\* TransitiveTargets: the roots, and every target reachable from them that
\* is not a root
TransitiveTargets(roots) ==
    [roots |-> Range(roots), dependencies |-> Closure(Range(roots)) \ Range(roots)]

SourcesOf(address) == {FileContent(address, <<>>, FALSE)}
SourceFiles(targets) == UNION {SourcesOf(t) : t \in targets}
BuiltPackage(field_set) == {FileContent(field_set, <<"p", "k", "g">>, FALSE)}
MergeDigests(ds) == UNION ds
CreateDigest(files) == Range(files)

\* ---- resolve_execution_environment
\* line 121
StringsOf(raw) ==
    LET is_str(i) == i.type = "str"
        items == SelectSeq(raw, is_str)
    IN [i \in 1..Len(items) |-> items[i].address]

\* line 122
RunnablesOf(raw) ==
    LET is_runnable(i) == i.type = "runnable"
        items == SelectSeq(raw, is_runnable)
    IN [i \in 1..Len(items) |-> [name |-> items[i].name, address |-> items[i].address]]

\* await Get(Addresses, UnparsedAddressInputs(...)), lines 124-131 and
\* 198-205: the addresses, or the engine's error raised out of the caller
AwaitAddressesSwallowing(strings) ==
    [raised |-> FALSE, addresses |-> SelectSeq(strings, Resolvable)]

AwaitAddresses(strings) ==
    IF \E i \in 1..Len(strings) : ~ Resolvable(strings[i])
    THEN [raised |-> TRUE, addresses |-> <<>>]
    ELSE [raised |-> FALSE, addresses |-> strings]

UnresolvableAddress == "ResolveError: unresolvable address"
EngineError == "engine error: invalid Get"
\* the error of a rule the engine ran for a Get, raised out of the await
GetFailed == "engine error: the rule asked for raised"

ReeRaise(error) ==
    [status |-> "raised", error |-> error, digest |-> {},
     runnable_dependencies |-> NoneOpt]

\* lines 160-163.  `i.address is not target_address` compares object
\* identity: a root whose address equals the owning address is dropped only
\* when the engine hands back the very Address object of the request.
AllDependencies(tt, target_address, same_object) ==
    {i \in tt.roots : ~ (i = target_address /\ same_object)} \cup tt.dependencies

ReeInit ==
    /\ ReeIdle
    /\ ApIdle
    /\ PrepIdle
    /\ PdIdle
    /\ RgIdle
    /\ ShIdle
    /\ RdIdle
    /\ FindIdle
    /\ SuIdle

\* a request arrives, for a build graph
ReeRequest ==
    /\ ree_pc = "idle"
    /\ \E n \in 0..MaxDeps : \E raw \in [1..n -> ExecutionDependencyItems] :
       \E explicit \in BOOLEAN, regular \in {NoneOpt, Some(<<":lib">>)} :
          /\ explicit \/ n = 0
          /\ request' = [address |-> OwnAddress,
                         execution_dependencies |-> IF explicit THEN Some(raw) ELSE NoneOpt,
                         dependencies |-> regular]
    /\ \E formatter \in RunCommandsOf(":formatter"), linter \in RunCommandsOf(":linter"),
          iid \in ImmutableInputDicts, aoc \in AppendOnlyCacheDicts :
          run_request_of' =
              [a \in RunnableAddresses |->
                  IF a = ":formatter"
                  THEN RunInSandboxRequest(
                           formatter,
                           << <<PathComponent("jdk"), {FileContent("java", <<"1">>, TRUE)}>> >>,
                           << <<<<"c", "a", "c", "h", "e">>, <<"/", "t", "m", "p", "/", "c", "1">>>> >>)
                  ELSE RunInSandboxRequest(linter, iid, aoc)]
    /\ ree_pc' = "requested"
    /\ UNCHANGED <<execution_dependencies, runnables_digest, runnable_dependencies,
                   warned, transitive, all_dependencies, sources, packages, ree_result>>
    /\ UNCHANGED <<rd_vars, not_ree_vars>>

\* lines 119-131, the Get raising
ReeAddressesFail ==
    /\ ree_pc = "requested"
    /\ request.execution_dependencies # NoneOpt
    /\ AwaitAddresses(StringsOf(request.execution_dependencies[1])).raised
    /\ ree_pc' = "done"
    /\ ree_result' = ReeRaise(UnresolvableAddress)
    /\ UNCHANGED <<request, run_request_of, execution_dependencies, runnables_digest,
                   runnable_dependencies, warned, transitive, all_dependencies,
                   sources, packages>>
    /\ UNCHANGED <<rd_vars, not_ree_vars>>

\* lines 119-134, up to the call of _resolve_runnable_dependencies
ReeAddresses ==
    /\ ree_pc = "requested"
    /\ request.execution_dependencies # NoneOpt
    /\ LET got == AwaitAddresses(StringsOf(request.execution_dependencies[1]))
       IN /\ ~ got.raised
          /\ execution_dependencies' = got.addresses
    /\ deps' = RunnablesOf(request.execution_dependencies[1])
    /\ rd_pc' = "called"
    /\ ree_pc' = "runnables"
    /\ UNCHANGED <<request, run_request_of, runnables_digest, runnable_dependencies,
                   warned, transitive, all_dependencies, sources, packages, ree_result>>
    /\ UNCHANGED <<runnables, digests, shims, immutable_input_digests,
                   append_only_caches>>
    /\ UNCHANGED not_ree_vars

\* lines 198-205, the Get raising: the error leaves both functions
RdAddressesFail ==
    /\ rd_pc = "called"
    /\ AwaitAddresses([i \in 1..Len(deps) |-> deps[i].address]).raised
    /\ rd_pc' = UnresolvableAddress
    /\ ree_pc' = "done"
    /\ ree_result' = ReeRaise(UnresolvableAddress)
    /\ UNCHANGED <<request, run_request_of, execution_dependencies, runnables_digest,
                   runnable_dependencies, warned, transitive, all_dependencies,
                   sources, packages>>
    /\ UNCHANGED <<deps, runnables, digests, shims, immutable_input_digests,
                   append_only_caches>>
    /\ UNCHANGED not_ree_vars

\* lines 198-207: the Get of lines 198-205 answers with the addresses, and
\* the function suspends again at Get(Targets, Addresses) of line 207
RdAddresses ==
    /\ rd_pc = "called"
    /\ ~ AwaitAddresses([i \in 1..Len(deps) |-> deps[i].address]).raised
    /\ rd_pc' = "addresses"
    /\ UNCHANGED <<deps, runnables, digests, shims, immutable_input_digests,
                   append_only_caches>>
    /\ UNCHANGED <<ree_vars, not_ree_vars>>

\* line 207, the Get raising: the error leaves both functions
RdTargetsFail ==
    /\ rd_pc = "addresses"
    /\ rd_pc' = GetFailed
    /\ ree_pc' = "done"
    /\ ree_result' = ReeRaise(GetFailed)
    /\ UNCHANGED <<request, run_request_of, execution_dependencies, runnables_digest,
                   runnable_dependencies, warned, transitive, all_dependencies,
                   sources, packages>>
    /\ UNCHANGED <<deps, runnables, digests, shims, immutable_input_digests,
                   append_only_caches>>
    /\ UNCHANGED not_ree_vars

\* lines 207-213: the Get of line 207 answers with the targets, and the
\* function suspends again at Get(FieldSetsPerTarget) of lines 210-213
RdTargets ==
    /\ rd_pc = "addresses"
    /\ rd_pc' = "targets"
    /\ UNCHANGED <<deps, runnables, digests, shims, immutable_input_digests,
                   append_only_caches>>
    /\ UNCHANGED <<ree_vars, not_ree_vars>>

\* lines 209-218: the Get of lines 210-213 answers, fspt is the 1-tuple
\* holding the FieldSetsPerTarget, and the function suspends again at the
\* MultiGet of lines 216-218, which makes one Get
RdFieldSets ==
    /\ rd_pc = "targets"
    /\ rd_pc' = "fieldsets"
    /\ UNCHANGED <<deps, runnables, digests, shims, immutable_input_digests,
                   append_only_caches>>
    /\ UNCHANGED <<ree_vars, not_ree_vars>>

\* lines 216-218.  fspt is a 1-tuple holding the FieldSetsPerTarget, so the
\* one Get of the MultiGet has for input no RunFieldSet but the whole
\* FieldSetsPerTarget: the engine rejects it ...
RdRunRequestsFail ==
    /\ rd_pc = "fieldsets"
    /\ rd_pc' = EngineError
    /\ ree_pc' = "done"
    /\ ree_result' = ReeRaise(EngineError)
    /\ UNCHANGED <<request, run_request_of, execution_dependencies, runnables_digest,
                   runnable_dependencies, warned, transitive, all_dependencies,
                   sources, packages>>
    /\ UNCHANGED <<deps, runnables, digests, shims, immutable_input_digests,
                   append_only_caches>>
    /\ UNCHANGED not_ree_vars

\* ... or answers it with one RunInSandboxRequest
RdRunRequests ==
    /\ rd_pc = "fieldsets"
    /\ \E a \in RunnableAddresses : runnables' = <<run_request_of[a]>>
    /\ rd_pc' = "loop"
    /\ UNCHANGED <<deps, digests, shims, immutable_input_digests, append_only_caches>>
    /\ UNCHANGED <<ree_vars, not_ree_vars>>

\* one iteration of `for dep, runnable in zip(deps, runnables)`, lines 225-242
RdLoop ==
    /\ rd_pc = "loop"
    /\ ree_pc = "runnables"
    /\ Len(digests) < Len(deps)
    /\ Len(digests) < Len(runnables)
    /\ LET dep == deps[Len(digests) + 1]
           runnable == runnables[Len(digests) + 1]
           merged == MergeEnvironments(immutable_input_digests,
                                       append_only_caches, runnable)
       IN /\ digests' = Append(digests, runnable.digest)
          /\ shims' = Append(shims, ShimOf(dep, runnable))
          /\ immutable_input_digests' = merged.immutable_input_digests
          /\ append_only_caches' = merged.append_only_caches
          /\ rd_pc' = IF merged.raised THEN IncompatibleEnvironments ELSE "loop"
          /\ ree_pc' = IF merged.raised THEN "done" ELSE ree_pc
          /\ ree_result' = IF merged.raised
                           THEN ReeRaise(IncompatibleEnvironments)
                           ELSE ree_result
    /\ UNCHANGED <<deps, runnables>>
    /\ UNCHANGED <<request, run_request_of, execution_dependencies, runnables_digest,
                   runnable_dependencies, warned, transitive, all_dependencies,
                   sources, packages>>
    /\ UNCHANGED not_ree_vars

\* lines 244-258: what _resolve_runnable_dependencies returns, and what line
\* 249 leaves in immutable_input_digests
ResolvedRunnablesNoneIfEmpty(digests_, shims_, iid_, aoc_) ==
    LET digest == MergeDigests(Range(digests_))
        shim_digest == CreateDigest(shims_)
        shim_digest_path == ShimDigestPath(shim_digest)
        iid == SetItem(iid_, shim_digest_path, shim_digest)
    IN [digest |-> digest,
        immutable_input_digests |-> iid,
        runnable_dependencies |->
            IF shims_ = <<>>
            THEN NoneOpt
            ELSE Some([path_component |-> shim_digest_path,
                       immutable_input_digests |-> iid,
                       append_only_caches |-> aoc_])]

ResolvedRunnables(digests_, shims_, iid_, aoc_) ==
    LET digest == MergeDigests(Range(digests_))
        shim_digest == CreateDigest(shims_)
        shim_digest_path == ShimDigestPath(shim_digest)
        iid == SetItem(iid_, shim_digest_path, shim_digest)
    IN [digest |-> digest,
        immutable_input_digests |-> iid,
        runnable_dependencies |->
            Some([path_component |-> shim_digest_path,
                  immutable_input_digests |-> iid,
                  append_only_caches |-> aoc_])]

\* lines 244-258, and the assignment of line 132
RdReturn ==
    /\ rd_pc = "loop"
    /\ ree_pc = "runnables"
    /\ ~ (Len(digests) < Len(deps) /\ Len(digests) < Len(runnables))
    /\ LET resolved == ResolvedRunnables(digests, shims, immutable_input_digests,
                                         append_only_caches)
       IN /\ immutable_input_digests' = resolved.immutable_input_digests
          /\ runnables_digest' = resolved.digest
          /\ runnable_dependencies' = resolved.runnable_dependencies
    /\ rd_pc' = "returned"
    /\ ree_pc' = "roots"
    /\ UNCHANGED <<deps, runnables, digests, shims, append_only_caches>>
    /\ UNCHANGED <<request, run_request_of, execution_dependencies, warned, transitive,
                   all_dependencies, sources, packages, ree_result>>
    /\ UNCHANGED not_ree_vars

\* lines 135-150
ReeLegacySilent ==
    /\ ree_pc = "requested"
    /\ request.execution_dependencies = NoneOpt
    /\ request.dependencies # NoneOpt
    /\ execution_dependencies' = <<request.address>>
    /\ warned' = FALSE
    /\ runnables_digest' = EMPTY_DIGEST
    /\ runnable_dependencies' = NoneOpt
    /\ ree_pc' = "roots"
    /\ UNCHANGED <<request, run_request_of, transitive, all_dependencies, sources,
                   packages, ree_result>>
    /\ UNCHANGED <<rd_vars, not_ree_vars>>

\* lines 135-150
ReeLegacy ==
    /\ ree_pc = "requested"
    /\ request.execution_dependencies = NoneOpt
    /\ request.dependencies # NoneOpt
    /\ execution_dependencies' = <<request.address>>
    /\ warned' = TRUE
    /\ runnables_digest' = EMPTY_DIGEST
    /\ runnable_dependencies' = NoneOpt
    /\ ree_pc' = "roots"
    /\ UNCHANGED <<request, run_request_of, transitive, all_dependencies, sources,
                   packages, ree_result>>
    /\ UNCHANGED <<rd_vars, not_ree_vars>>

\* lines 151-153
ReeDefault ==
    /\ ree_pc = "requested"
    /\ request.execution_dependencies = NoneOpt
    /\ request.dependencies = NoneOpt
    /\ execution_dependencies' = <<request.address>>
    /\ runnables_digest' = EMPTY_DIGEST
    /\ runnable_dependencies' = NoneOpt
    /\ ree_pc' = "roots"
    /\ UNCHANGED <<request, run_request_of, warned, transitive, all_dependencies,
                   sources, packages, ree_result>>
    /\ UNCHANGED <<rd_vars, not_ree_vars>>

\* lines 155-163
ReeTransitive ==
    /\ ree_pc = "roots"
    /\ transitive' = Some(TransitiveTargets(execution_dependencies))
    /\ \E same_object \in BOOLEAN :
          all_dependencies' = AllDependencies(TransitiveTargets(execution_dependencies),
                                              request.address, same_object)
    /\ ree_pc' = "walked"
    /\ UNCHANGED <<request, run_request_of, execution_dependencies, runnables_digest,
                   runnable_dependencies, warned, sources, packages, ree_result>>
    /\ UNCHANGED <<rd_vars, not_ree_vars>>

\* pkgs_per_target.field_sets, lines 174-177 and 182
PackageFieldSets(targets) == targets \cap Packageable

\* lines 165-183: the MultiGet of lines 165-178 answers with sources and
\* pkgs_per_target, and the rule suspends again at the MultiGet of lines
\* 180-183
ReeSources ==
    /\ ree_pc = "walked"
    /\ sources' = Some(SourceFiles(all_dependencies))
    /\ ree_pc' = "sourced"
    /\ UNCHANGED <<request, run_request_of, execution_dependencies, runnables_digest,
                   runnable_dependencies, warned, transitive, all_dependencies,
                   packages, ree_result>>
    /\ UNCHANGED <<rd_vars, not_ree_vars>>

\* lines 180-183, a package failing to build: the MultiGet raises
ReePackagesFail ==
    /\ ree_pc = "sourced"
    /\ PackageFieldSets(all_dependencies) # {}
    /\ ree_pc' = "done"
    /\ ree_result' = ReeRaise(GetFailed)
    /\ UNCHANGED <<request, run_request_of, execution_dependencies, runnables_digest,
                   runnable_dependencies, warned, transitive, all_dependencies,
                   sources, packages>>
    /\ UNCHANGED <<rd_vars, not_ree_vars>>

\* lines 180-190: the MultiGet of lines 180-183 answers with the packages,
\* and the rule suspends again at the Get of lines 185-190
ReePackages ==
    /\ ree_pc = "sourced"
    /\ packages' = Some({BuiltPackage(field_set) :
                           field_set \in PackageFieldSets(all_dependencies)})
    /\ ree_pc' = "gathered"
    /\ UNCHANGED <<request, run_request_of, execution_dependencies, runnables_digest,
                   runnable_dependencies, warned, transitive, all_dependencies,
                   sources, ree_result>>
    /\ UNCHANGED <<rd_vars, not_ree_vars>>

\* lines 185-192
ReeReturnNoPackages ==
    /\ ree_pc = "gathered"
    /\ ree_result' =
          [status |-> "returned", error |-> "",
           digest |-> MergeDigests({sources[1], runnables_digest}),
           runnable_dependencies |-> runnable_dependencies]
    /\ ree_pc' = "done"
    /\ UNCHANGED <<request, run_request_of, execution_dependencies, runnables_digest,
                   runnable_dependencies, warned, transitive, all_dependencies,
                   sources, packages>>
    /\ UNCHANGED <<rd_vars, not_ree_vars>>

\* lines 185-192
ReeReturn ==
    /\ ree_pc = "gathered"
    /\ ree_result' =
          [status |-> "returned", error |-> "",
           digest |-> MergeDigests({sources[1], runnables_digest} \cup packages[1]),
           runnable_dependencies |-> runnable_dependencies]
    /\ ree_pc' = "done"
    /\ UNCHANGED <<request, run_request_of, execution_dependencies, runnables_digest,
                   runnable_dependencies, warned, transitive, all_dependencies,
                   sources, packages>>
    /\ UNCHANGED <<rd_vars, not_ree_vars>>

ReeNext ==
    \/ ReeRequest \/ ReeAddressesFail \/ ReeAddresses
    \/ RdAddressesFail \/ RdAddresses \/ RdTargetsFail \/ RdTargets \/ RdFieldSets
    \/ RdRunRequestsFail \/ RdRunRequests \/ RdLoop \/ RdReturn
    \/ ReeLegacy \/ ReeDefault \/ ReeTransitive \/ ReeSources \/ ReePackagesFail
    \/ ReePackages \/ ReeReturn

SpecResolve == ReeInit /\ [][ReeNext]_vars

\* ------------------------------------------------------------------------
\* Properties of resolve_execution_environment
\* ------------------------------------------------------------------------
RawDependencies ==
    IF request.execution_dependencies = NoneOpt
    THEN <<>>
    ELSE request.execution_dependencies[1]

\* the explicit list declares the two runnables :formatter and :linter, every
\* address of the list resolves, and the run requests of the two disagree on
\* a shared immutable-input-digest key or append-only-cache key
DeclaresConflictingRunnables ==
    /\ \A i \in 1..Len(RawDependencies) : Resolvable(RawDependencies[i].address)
    /\ {d.address : d \in Range(RunnablesOf(RawDependencies))} = RunnableAddresses
    /\ \/ Disagree(run_request_of[":formatter"].immutable_input_digests,
                   run_request_of[":linter"].immutable_input_digests)
       \/ Disagree(run_request_of[":formatter"].append_only_caches,
                   run_request_of[":linter"].append_only_caches)

\* C8: when two runnable dependencies disagree on the value of a shared
\* immutable-input-digest or append-only-cache key, the resolution ends with
\* the 'mutually incompatible environments' error and returns nothing: no
\* digest and no RunnableDependencies.
C8_ConflictAborts ==
    (ree_pc = "done" /\ DeclaresConflictingRunnables) =>
        /\ ree_result.status = "raised"
        /\ ree_result.error = IncompatibleEnvironments
        /\ ree_result.digest = EMPTY_DIGEST
        /\ ree_result.runnable_dependencies = NoneOpt

\* the call of _resolve_runnable_dependencies is over, and not because a
\* Get before the one of lines 216-218 raised
RdOver == rd_pc \in {"returned", EngineError, IncompatibleEnvironments}

\* the explicit list declares the two runnables, every address of it
\* resolves, the run request of :formatter has extra_env {"X": "1"} and the
\* one of :linter {"X": second}, and they disagree on nothing else
TwoRunnablesWithX(second) ==
    /\ \A i \in 1..Len(RawDependencies) : Resolvable(RawDependencies[i].address)
    /\ {d.address : d \in Range(RunnablesOf(RawDependencies))} = RunnableAddresses
    /\ Len(RunnablesOf(RawDependencies)) = 2
    /\ run_request_of[":formatter"].extra_env = EnvX(<<"1">>)
    /\ run_request_of[":linter"].extra_env = EnvX(second)
    /\ ~ Disagree(run_request_of[":formatter"].immutable_input_digests,
                  run_request_of[":linter"].immutable_input_digests)
    /\ ~ Disagree(run_request_of[":formatter"].append_only_caches,
                  run_request_of[":linter"].append_only_caches)

\* C7: when the two runnable dependencies of a target both declare
\* extra_env {"X": "1"}, _resolve_runnable_dependencies returns with the two
\* shims built; when one declares {"X": "1"} and the other {"X": "2"}, it
\* fails with the incompatible-environment error.
C7_ExtraEnvConflictFails ==
    /\ (RdOver /\ TwoRunnablesWithX(<<"1">>)) =>
           (rd_pc = "returned" /\ Len(shims) = 2)
    /\ (RdOver /\ TwoRunnablesWithX(<<"2">>)) =>
           rd_pc = IncompatibleEnvironments

HasUnresolvable ==
    \E i \in 1..Len(RawDependencies) : ~ Resolvable(RawDependencies[i].address)

\* C9: when the explicit execution_dependencies list holds an address that
\* does not resolve, as a plain string or as the address of a runnable
\* declaration, the call ends by raising the resolution error; the
\* transitive walk, the source gathering and the packaging are never asked
\* for, and no digest is returned.
C9_UnresolvableAddressFailsAll ==
    (ree_pc # "idle" /\ HasUnresolvable) =>
        /\ ree_result.status # "returned"
        /\ transitive = NoneOpt
        /\ sources = NoneOpt
        /\ packages = NoneOpt
        /\ ree_result.digest = EMPTY_DIGEST
        /\ ree_pc \in {"requested", "runnables", "done"}
        /\ ree_pc = "done" => /\ ree_result.status = "raised"
                              /\ ree_result.error = UnresolvableAddress

\* the unresolvable address is the one of a runnable declaration, met after
\* the plain strings of the list resolved
C9_Witness ==
    /\ ree_pc = "done"
    /\ HasUnresolvable
    /\ execution_dependencies # <<>>
    /\ rd_pc = UnresolvableAddress
    /\ ree_result.status = "raised"

\* ========================================================================
\* adhoc_process_support.py : run_adhoc_process and prepare_adhoc_process
\* ========================================================================

\* os.path.join(a, b)
OsPathJoin(a, b) ==
    IF StartsWith(b, <<"/">>) THEN b
    ELSE IF a = <<>> \/ a[Len(a)] = "/" THEN a \o b
    ELSE a \o <<"/">> \o b

\* what _parse_relative_directory is given as relative_to
Address(spec_path) == [type |-> "Address", spec_path |-> spec_path]
Str(s) == [type |-> "str", spec_path |-> s]

\* _parse_relative_directory(workdir_in, relative_to)
ParseRelativeDirectoryJoinsOthers(workdir_in, relative_to) ==
    LET reldir == relative_to.spec_path
    IN IF workdir_in = <<".">> THEN reldir
       ELSE IF StartsWith(workdir_in, <<".", "/">>)
            THEN OsPathJoin(reldir, SubSeq(workdir_in, 3, Len(workdir_in)))
       ELSE IF StartsWith(workdir_in, <<"/">>) THEN Tail(workdir_in)
       ELSE OsPathJoin(reldir, workdir_in)

ParseRelativeDirectory(workdir_in, relative_to) ==
    LET reldir == relative_to.spec_path
    IN IF workdir_in = <<".">> THEN reldir
       ELSE IF StartsWith(workdir_in, <<".", "/">>)
            THEN OsPathJoin(reldir, SubSeq(workdir_in, 3, Len(workdir_in)))
       ELSE IF StartsWith(workdir_in, <<"/">>) THEN Tail(workdir_in)
       ELSE workdir_in

Directory(path) == [path |-> path, is_dir |-> TRUE]

\* Snapshot.dirs: the directories of a digest's tree
ParentsOf(path) == {SubSeq(path, 1, i - 1) : i \in {j \in 2..Len(path) : path[j] = "/"}}
SnapshotDirs(digest) ==
    UNION {ParentsOf(e.path) : e \in digest}
        \cup {e.path : e \in {d \in digest : "is_dir" \in DOMAIN d}}

\* the environment the engine reads fetch_env_vars from
AmbientEnv == << <<"PATH", "/usr/bin">>, <<"HOME", "/root">> >>
EnvironmentVars(names) ==
    LET has(item) == item[1] \in Range(names)
    IN SelectSeq(AmbientEnv, has)

\* dict.get(key, None)
DictGet(d, k) == IF k \in Keys(d) THEN Lookup(d, k) ELSE None

\* `x or FrozenDict()`
OrEmpty(opt) == IF opt = NoneOpt THEN <<>> ELSE opt[1]

\* _output_at_build_root(process, bash)
OutputAtBuildRootNoCd(process, bash) ==
    LET working_directory == OrEmpty(process.working_directory)
        prefixed(paths) == [i \in 1..Len(paths) |-> OsPathJoin(working_directory, paths[i])]
        shlexed_argv == Join(<<" ">>, [i \in 1..Len(process.argv) |-> ShlexQuote(process.argv[i])])
    IN [process EXCEPT
           !.argv = <<bash, <<"-", "c">>, shlexed_argv>>,
           !.working_directory = NoneOpt,
           !.output_directories =
               IF working_directory # <<>> THEN prefixed(@) ELSE @,
           !.output_files =
               IF working_directory # <<>> THEN prefixed(@) ELSE @]

OutputAtBuildRootKeepsWorkdir(process, bash) ==
    LET working_directory == OrEmpty(process.working_directory)
        prefixed(paths) == [i \in 1..Len(paths) |-> OsPathJoin(working_directory, paths[i])]
        cd == IF working_directory # <<>>
              THEN <<"c", "d", " ">> \o ShlexQuote(working_directory) \o <<" ", "&", "&", " ">>
              ELSE <<>>
        shlexed_argv == Join(<<" ">>, [i \in 1..Len(process.argv) |-> ShlexQuote(process.argv[i])])
    IN [process EXCEPT
           !.argv = <<bash, <<"-", "c">>, cd \o shlexed_argv>>,
           !.output_directories =
               IF working_directory # <<>> THEN prefixed(@) ELSE @,
           !.output_files =
               IF working_directory # <<>> THEN prefixed(@) ELSE @]

OutputAtBuildRootUnprefixed(process, bash) ==
    LET working_directory == OrEmpty(process.working_directory)
        cd == IF working_directory # <<>>
              THEN <<"c", "d", " ">> \o ShlexQuote(working_directory) \o <<" ", "&", "&", " ">>
              ELSE <<>>
        shlexed_argv == Join(<<" ">>, [i \in 1..Len(process.argv) |-> ShlexQuote(process.argv[i])])
    IN [process EXCEPT
           !.argv = <<bash, <<"-", "c">>, cd \o shlexed_argv>>,
           !.working_directory = NoneOpt]

OutputAtBuildRoot(process, bash) ==
    LET working_directory == OrEmpty(process.working_directory)
        prefixed(paths) == [i \in 1..Len(paths) |-> OsPathJoin(working_directory, paths[i])]
        cd == IF working_directory # <<>>
              THEN <<"c", "d", " ">> \o ShlexQuote(working_directory) \o <<" ", "&", "&", " ">>
              ELSE <<>>
        shlexed_argv == Join(<<" ">>, [i \in 1..Len(process.argv) |-> ShlexQuote(process.argv[i])])
    IN [process EXCEPT
           !.argv = <<bash, <<"-", "c">>, cd \o shlexed_argv>>,
           !.working_directory = NoneOpt,
           !.output_directories =
               IF working_directory # <<>> THEN prefixed(@) ELSE @,
           !.output_files =
               IF working_directory # <<>> THEN prefixed(@) ELSE @]

\* lines 345-351: command_env once extra_env has come back
CommandEnv(req, extra_env) ==
    UpdateFrom(UpdateFrom(<<>>, extra_env, 1), OrEmpty(req.supplied_env_var_values), 1)

\* line 355: whether the working directory has to be created
NeedsWorkDir(working_directory, dirs) ==
    ~ (working_directory = <<>> \/ working_directory \in dirs)

\* lines 363-374
ProcessOf(req, working_directory, env, input_digest) ==
    [argv |-> req.argv,
     description |-> <<"Running ", req.description>>,
     env |-> env,
     input_digest |-> input_digest,
     output_directories |-> req.output_directories,
     output_files |-> req.output_files,
     timeout_seconds |-> req.timeout,
     working_directory |-> Some(working_directory),
     append_only_caches |-> OrEmpty(req.append_only_caches),
     immutable_input_digests |-> OrEmpty(req.immutable_input_digests)]

\* prepare_adhoc_process, lines 334-374, when every Get answers: the
\* Process before it is rewritten
PreparedProcess(req) ==
    LET working_directory == ParseRelativeDirectory(req.working_directory, req.address)
        env == CommandEnv(req, EnvironmentVars(req.fetch_env_vars))
        digest == IF NeedsWorkDir(working_directory, SnapshotDirs(req.input_digest))
                  THEN CreateDigest(<<Directory(working_directory)>>)
                  ELSE EMPTY_DIGEST
    IN ProcessOf(req, working_directory, env, MergeDigests({req.input_digest, digest}))

\* prepare_adhoc_process(request, bash)
PrepareAdhocProcess(req, bash) == OutputAtBuildRoot(PreparedProcess(req), bash)

\* ---- the engine, as far as run_adhoc_process asks it
ExitCodes == {0, 1, 127}

\* what a process that ran to completion leaves: an exit code, the captured
\* streams, and the declared outputs it wrote
FallibleProcessResult(exit_code, stdout, stderr, output_digest) ==
    [exit_code |-> exit_code, stdout |-> stdout, stderr |-> stderr,
     output_digest |-> output_digest]

DeclaredOutputs(process) ==
    {FileContent(f, <<>>, FALSE) : f \in Range(process.output_files)}
        \cup {FileContent(OsPathJoin(d, <<"g", "e", "n", ".", "t", "x", "t">>), <<>>, FALSE) :
                 d \in Range(process.output_directories)}

\* FallibleProcessResult -> ProcessResult, when the engine's rule answers:
\* the streams and the output digest run_adhoc_process reads from it
ToProcessResult(fallible_result, description) ==
    [stdout |-> fallible_result.stdout, stderr |-> fallible_result.stderr,
     output_digest |-> fallible_result.output_digest]

\* the error of that rule for a process that exited with a nonzero code,
\* described by the ProductDescription handed to it
NonzeroExit == "ProcessExecutionError: the process exited with a nonzero code"

\* RemovePrefix(digest, prefix): the tree rooted at prefix
StripPrefix(path, prefix) ==
    IF prefix # <<>> /\ StartsWith(path, prefix \o <<"/">>)
    THEN SubSeq(path, Len(prefix) + 2, Len(path))
    ELSE path
RemovePrefix(digest, prefix) ==
    {[e EXCEPT !.path = StripPrefix(e.path, prefix)] : e \in digest}

\* every entry of the digest is under the prefix
PrefixMatches(digest, prefix) ==
    prefix = <<>> \/ \A e \in digest : StartsWith(e.path, prefix \o <<"/">>)

\* the error of RemovePrefix for a digest with an entry outside the prefix
PrefixMismatch == "engine error: cannot strip the prefix from the digest"

AdhocProcessResult(process_result, adjusted_digest) ==
    [process_result |-> process_result, adjusted_digest |-> adjusted_digest]

\* `if x:` for a str or None
Truthy(x) == x # None /\ x # ""

\* ---- the requests run_adhoc_process is run on
WorkingDirectories == {<<>>, <<".">>, <<".", "/", "s", "u", "b">>, <<"/", "a", "b", "s">>, <<"o", "u", "t">>}
RootOutputDirectories == {<<".">>, <<".", "/", "d", "i", "s", "t">>, <<"/">>}
LogOnProcessErrors ==
    {NoneOpt,
     Some(<< <<1, "failed">> >>),
     Some(<< <<127, "command not found">>, <<1, "">> >>)}
SuppliedEnvVarValues == {NoneOpt, Some(<< <<"PATH", "/opt/bin">>, <<"LANG", "C">> >>)}
InputDigests ==
    {EMPTY_DIGEST, {FileContent(<<"s", "r", "c", "/", "a", "p", "p", "/", "s", "u", "b", "/", "i", "n", ".", "t", "x", "t">>, <<>>, FALSE)}}

AdhocProcessRequests ==
    [description : {"the shell_command"},
     address : {Address(<<>>), Address(<<"s", "r", "c", "/", "a", "p", "p">>)},
     working_directory : WorkingDirectories,
     root_output_directory : RootOutputDirectories,
     argv : {<<<<"e", "c", "h", "o">>, <<"h", "i", " ", "t", "h", "e", "r", "e">>>>, <<<<"e", "c", "h", "o">>, <<"h", "i">>>>},
     timeout : {NoneOpt},
     input_digest : InputDigests,
     immutable_input_digests : {NoneOpt},
     append_only_caches : {NoneOpt},
     output_files : {<<<<"o", "u", "t", ".", "t", "x", "t">>>>},
     output_directories : {<<<<"g", "e", "n">>>>},
     fetch_env_vars : {<<"PATH", "UNSET">>},
     supplied_env_var_values : SuppliedEnvVarValues,
     log_on_process_errors : LogOnProcessErrors,
     log_output : BOOLEAN]

ProcessFailed == "ProcessExecutionError: the process could not be run"

ApInit ==
    /\ ApIdle
    /\ PrepIdle
    /\ FindIdle
    /\ SuIdle
    /\ RdIdle
    /\ ReeIdle
    /\ PdIdle
    /\ RgIdle
    /\ ShIdle

\* a caller asks for Get(AdhocProcessResult, AdhocProcessRequest)
ApRequest ==
    /\ ap_pc = "idle"
    /\ ap_request' \in {Some(r) : r \in AdhocProcessRequests}
    /\ ap_pc' = "Requested"
    /\ UNCHANGED <<ap_process, ap_executions, ap_fallible, ap_result, ap_adjusted,
                   ap_log, ap_outcome, ap_error>>
    /\ UNCHANGED not_ap_vars

\* line 293: Get(Process, AdhocProcessRequest) is prepare_adhoc_process,
\* which the engine runs while run_adhoc_process is suspended.
\* lines 326-347: up to the Get(EnvironmentVars)
PrepStart ==
    /\ ap_pc = "Requested"
    /\ prep_pc = "idle"
    /\ command_env' = <<>>
    /\ prep_pc' = "EnvironmentVars"
    /\ UNCHANGED <<input_snapshot, work_dir>>
    /\ UNCHANGED <<ap_vars, not_prep_vars>>

\* lines 347-353: extra_env comes back, up to the Get(Snapshot)
PrepEnvironmentVars ==
    /\ prep_pc = "EnvironmentVars"
    /\ command_env' = CommandEnv(ap_request[1],
                                 EnvironmentVars(ap_request[1].fetch_env_vars))
    /\ prep_pc' = "Snapshot"
    /\ UNCHANGED <<input_snapshot, work_dir>>
    /\ UNCHANGED <<ap_vars, not_prep_vars>>

\* lines 353-361: the snapshot comes back, up to the Get(Digest,
\* CreateDigest) of line 359 or, when no directory is to be created, the
\* Get(Digest, MergeDigests) of line 361
PrepSnapshot ==
    /\ prep_pc = "Snapshot"
    /\ LET req == ap_request[1]
           working_directory == ParseRelativeDirectory(req.working_directory, req.address)
           dirs == SnapshotDirs(req.input_digest)
       IN /\ input_snapshot' = Some(dirs)
          /\ IF NeedsWorkDir(working_directory, dirs)
             THEN /\ prep_pc' = "CreateDigest"
                  /\ UNCHANGED work_dir
             ELSE /\ work_dir' = Some(EMPTY_DIGEST)
                  /\ prep_pc' = "MergeDigests"
    /\ UNCHANGED command_env
    /\ UNCHANGED <<ap_vars, not_prep_vars>>

\* lines 359-361: the directory digest comes back, up to the Get(Digest,
\* MergeDigests)
PrepCreateDigest ==
    /\ prep_pc = "CreateDigest"
    /\ LET req == ap_request[1]
           working_directory == ParseRelativeDirectory(req.working_directory, req.address)
       IN work_dir' = Some(CreateDigest(<<Directory(working_directory)>>))
    /\ prep_pc' = "MergeDigests"
    /\ UNCHANGED <<command_env, input_snapshot>>
    /\ UNCHANGED <<ap_vars, not_prep_vars>>

\* lines 361-376: the merged digest comes back and the rewritten Process is
\* returned; line 293 assigns it
PrepReturn ==
    /\ prep_pc = "MergeDigests"
    /\ LET req == ap_request[1]
           working_directory == ParseRelativeDirectory(req.working_directory, req.address)
           input_digest == MergeDigests({req.input_digest, work_dir[1]})
           proc == ProcessOf(req, working_directory, command_env, input_digest)
       IN ap_process' = Some(OutputAtBuildRoot(proc, BashPath))
    /\ prep_pc' = "returned"
    /\ ap_pc' = "EnvironmentPrepared"
    /\ UNCHANGED <<command_env, input_snapshot, work_dir>>
    /\ UNCHANGED <<ap_request, ap_executions, ap_fallible, ap_result, ap_adjusted,
                   ap_log, ap_outcome, ap_error>>
    /\ UNCHANGED not_prep_vars

\* lines 347, 353, 359 and 361, the Get raising: the error leaves
\* prepare_adhoc_process and, through line 293, run_adhoc_process
PrepGetFail ==
    /\ prep_pc \in {"EnvironmentVars", "Snapshot", "CreateDigest", "MergeDigests"}
    /\ prep_pc' = "raised"
    /\ ap_pc' = "raised"
    /\ ap_error' = GetFailed
    /\ UNCHANGED <<command_env, input_snapshot, work_dir>>
    /\ UNCHANGED <<ap_request, ap_process, ap_executions, ap_fallible, ap_result,
                   ap_adjusted, ap_log, ap_outcome>>
    /\ UNCHANGED not_prep_vars

\* line 295: Get(FallibleProcessResult, Process) is asked for
ApExecute ==
    /\ ap_pc = "EnvironmentPrepared"
    /\ ap_executions' = ap_executions + 1
    /\ ap_pc' = "Executing"
    /\ UNCHANGED <<ap_request, ap_process, ap_fallible, ap_result, ap_adjusted,
                   ap_log, ap_outcome, ap_error>>
    /\ UNCHANGED not_ap_vars

\* the process runs to completion
ApComplete ==
    /\ ap_pc = "Executing"
    /\ \E exit_code \in ExitCodes, stdout \in {"", "hi there\n"},
          stderr \in {"", "warning\n"}, wrote \in BOOLEAN :
          ap_fallible' = Some(FallibleProcessResult(
                             exit_code, stdout, stderr,
                             IF wrote THEN DeclaredOutputs(ap_process[1])
                             ELSE EMPTY_DIGEST))
    /\ ap_pc' = "Completed"
    /\ UNCHANGED <<ap_request, ap_process, ap_executions, ap_result, ap_adjusted,
                   ap_log, ap_outcome, ap_error>>
    /\ UNCHANGED not_ap_vars

\* the process times out or cannot be launched: the Get raises
ApExecuteFail ==
    /\ ap_pc = "Executing"
    /\ ap_error' = ProcessFailed
    /\ ap_pc' = "raised"
    /\ UNCHANGED <<ap_request, ap_process, ap_executions, ap_fallible, ap_result,
                   ap_adjusted, ap_log, ap_outcome>>
    /\ UNCHANGED not_ap_vars

\* lines 297-302
ApLogErrorsSilent ==
    /\ ap_pc = "Completed"
    /\ ap_log' = ap_log
    /\ ap_pc' = "Converting"
    /\ UNCHANGED <<ap_request, ap_process, ap_executions, ap_fallible, ap_result,
                   ap_adjusted, ap_outcome, ap_error>>
    /\ UNCHANGED not_ap_vars

\* lines 297-302: the FallibleProcessResult comes back, the message
\* configured for its exit code is logged, up to the Get(ProcessResult)
ApLogErrors ==
    /\ ap_pc = "Completed"
    /\ LET log_on_errors == OrEmpty(ap_request[1].log_on_process_errors)
           error_to_log == DictGet(log_on_errors, ap_fallible[1].exit_code)
       IN ap_log' = IF Truthy(error_to_log)
                    THEN Append(ap_log, <<"error", error_to_log>>)
                    ELSE ap_log
    /\ ap_pc' = "Converting"
    /\ UNCHANGED <<ap_request, ap_process, ap_executions, ap_fallible, ap_result,
                   ap_adjusted, ap_outcome, ap_error>>
    /\ UNCHANGED not_ap_vars

\* lines 302-308, the Get(ProcessResult) answering
ApConvert ==
    /\ ap_pc = "Converting"
    /\ ap_result' = Some(ToProcessResult(ap_fallible[1], ap_request[1].description))
    /\ ap_pc' = "Converted"
    /\ UNCHANGED <<ap_request, ap_process, ap_executions, ap_fallible, ap_adjusted,
                   ap_log, ap_outcome, ap_error>>
    /\ UNCHANGED not_ap_vars

\* lines 302-308, the Get(ProcessResult) raising for a process that exited
\* with a nonzero code: the error leaves run_adhoc_process
ApConvertFail ==
    /\ ap_pc = "Converting"
    /\ ap_fallible[1].exit_code # 0
    /\ ap_error' = NonzeroExit
    /\ ap_pc' = "raised"
    /\ UNCHANGED <<ap_request, ap_process, ap_executions, ap_fallible, ap_result,
                   ap_adjusted, ap_log, ap_outcome>>
    /\ UNCHANGED not_ap_vars

\* the prefix line 321 strips: lines 316-319
RootOutputDirectoryIsWorkingDirectory(req) ==
    ParseRelativeDirectory(req.working_directory, req.address)

RootOutputDirectory(req) ==
    ParseRelativeDirectory(
        req.root_output_directory,
        Str(ParseRelativeDirectory(req.working_directory, req.address)))

\* lines 310-314
LogOutput(log, req, result) ==
    LET logged_out == IF req.log_output /\ result.stdout # ""
                      THEN Append(log, <<"info", result.stdout>>)
                      ELSE log
    IN IF req.log_output /\ result.stderr # ""
       THEN Append(logged_out, <<"warning", result.stderr>>)
       ELSE logged_out

\* lines 310-321: the ProcessResult came back, the captured output is
\* logged, up to the Get(Digest, RemovePrefix)
ApLogOutput ==
    /\ ap_pc = "Converted"
    /\ ap_log' = LogOutput(ap_log, ap_request[1], ap_result[1])
    /\ ap_pc' = "Adjusting"
    /\ UNCHANGED <<ap_request, ap_process, ap_executions, ap_fallible, ap_result,
                   ap_adjusted, ap_outcome, ap_error>>
    /\ UNCHANGED not_ap_vars

\* line 321, the Get(Digest, RemovePrefix) raising for an output outside
\* the prefix
ApAdjustFail ==
    /\ ap_pc = "Adjusting"
    /\ ~ PrefixMatches(ap_result[1].output_digest, RootOutputDirectory(ap_request[1]))
    /\ ap_error' = PrefixMismatch
    /\ ap_pc' = "raised"
    /\ UNCHANGED <<ap_request, ap_process, ap_executions, ap_fallible, ap_result,
                   ap_adjusted, ap_log, ap_outcome>>
    /\ UNCHANGED not_ap_vars

\* line 321, the Get(Digest, RemovePrefix) answering
ApAdjust ==
    /\ ap_pc = "Adjusting"
    /\ ap_adjusted' = Some(RemovePrefix(ap_result[1].output_digest,
                                        RootOutputDirectory(ap_request[1])))
    /\ ap_pc' = "OutputAdjusted"
    /\ UNCHANGED <<ap_request, ap_process, ap_executions, ap_fallible, ap_result,
                   ap_log, ap_outcome, ap_error>>
    /\ UNCHANGED not_ap_vars

\* line 323
ApReturnUnadjusted ==
    /\ ap_pc = "Converted"
    /\ ap_outcome' = Some(AdhocProcessResult(ap_result[1], ap_result[1].output_digest))
    /\ ap_pc' = "Returned"
    /\ UNCHANGED <<ap_request, ap_process, ap_executions, ap_fallible, ap_result,
                   ap_adjusted, ap_log, ap_error>>
    /\ UNCHANGED not_ap_vars

\* line 323
ApReturn ==
    /\ ap_pc = "OutputAdjusted"
    /\ ap_outcome' = Some(AdhocProcessResult(ap_result[1], ap_adjusted[1]))
    /\ ap_pc' = "Returned"
    /\ UNCHANGED <<ap_request, ap_process, ap_executions, ap_fallible, ap_result,
                   ap_adjusted, ap_log, ap_error>>
    /\ UNCHANGED not_ap_vars

ApNext ==
    \/ ApRequest \/ PrepStart \/ PrepEnvironmentVars \/ PrepSnapshot \/ PrepCreateDigest
    \/ PrepReturn \/ PrepGetFail \/ ApExecute \/ ApComplete \/ ApExecuteFail
    \/ ApLogErrors \/ ApConvert \/ ApConvertFail \/ ApLogOutput \/ ApAdjust
    \/ ApAdjustFail \/ ApReturn

SpecAdhoc == ApInit /\ [][ApNext]_vars

\* ------------------------------------------------------------------------
\* Properties of run_adhoc_process
\* ------------------------------------------------------------------------
\* the invocation is over for a process that ran to completion and wrote
\* every output under the prefix to strip
CompletedAndOver ==
    /\ ap_fallible # NoneOpt
    /\ ap_pc \in {"Returned", "raised"}
    /\ PrefixMatches(ap_fallible[1].output_digest, RootOutputDirectory(ap_request[1]))

\* C10: a nonzero exit code is a normal completed outcome, not an error.
\* For every exit code of the executed process, nonzero ones included, the
\* invocation does not raise: it reaches the output adjustment and returns
\* the AdhocProcessResult of the process result and of the adjusted digest.
C10_NonzeroExitIsNormal ==
    CompletedAndOver =>
        /\ ap_pc = "Returned"
        /\ ap_error = ""
        /\ ap_outcome =
              Some(AdhocProcessResult(
                       ToProcessResult(ap_fallible[1], ap_request[1].description),
                       RemovePrefix(ap_fallible[1].output_digest,
                                    RootOutputDirectory(ap_request[1]))))

\* the same, for a process that exited with 0
ZeroExitReturns ==
    (CompletedAndOver /\ ap_fallible[1].exit_code = 0) =>
        /\ ap_pc = "Returned"
        /\ ap_error = ""
        /\ ap_outcome =
              Some(AdhocProcessResult(
                       ToProcessResult(ap_fallible[1], ap_request[1].description),
                       RemovePrefix(ap_fallible[1].output_digest,
                                    RootOutputDirectory(ap_request[1]))))

\* ========================================================================
\* adhoc_process_support.py : _parse_relative_directory on its own
\* ========================================================================
PathAlphabet == {".", "/", "x"}

\* every string over the alphabet, up to the bound
PathStrings == UNION {[1..n -> PathAlphabet] : n \in 0..MaxPathLen}

\* the directories a call is made relative to
RelDirs == {<<>>, <<"s", "r", "c", "/", "a", "p", "p">>, <<"o", "u", "t", "/">>}

PdInit ==
    /\ PdIdle
    /\ RgIdle
    /\ ShIdle
    /\ FindIdle
    /\ SuIdle
    /\ RdIdle
    /\ ReeIdle
    /\ ApIdle
    /\ PrepIdle

\* a call with an Address (lines 405-406, then 410-417)
PdCallWithAddress ==
    /\ pd_result = NoneOpt
    /\ \E workdir_in \in PathStrings, spec_path \in RelDirs :
          /\ pd_workdir_in' = workdir_in
          /\ pd_relative_to' = Address(spec_path)
          /\ pd_result' = Some(ParseRelativeDirectory(workdir_in, Address(spec_path)))
    /\ UNCHANGED not_pd_vars

\* a call with a str (lines 407-408, then 410-417)
PdCallWithStr ==
    /\ pd_result = NoneOpt
    /\ \E workdir_in \in PathStrings, reldir \in RelDirs :
          /\ pd_workdir_in' = workdir_in
          /\ pd_relative_to' = Str(reldir)
          /\ pd_result' = Some(ParseRelativeDirectory(workdir_in, Str(reldir)))
    /\ UNCHANGED not_pd_vars

PdNext == PdCallWithAddress \/ PdCallWithStr

SpecParse == PdInit /\ [][PdNext]_vars

\* ------------------------------------------------------------------------
\* Properties of _parse_relative_directory
\* ------------------------------------------------------------------------
\* C11: the result is decided by exactly four cases: "." gives the owning
\* directory; a string starting with "./" gives os.path.join of the owning
\* directory and the remainder; a string starting with "/" gives the string
\* without that one leading separator; any other string is returned as is.
C11_FourCases ==
    pd_result # NoneOpt =>
        LET w == pd_workdir_in
            reldir == pd_relative_to.spec_path
            result == pd_result[1]
        IN /\ w = <<".">> => result = reldir
           /\ (Len(w) >= 2 /\ w[1] = "." /\ w[2] = "/") =>
                 result = OsPathJoin(reldir, SubSeq(w, 3, Len(w)))
           /\ (Len(w) >= 1 /\ w[1] = "/") =>
                 /\ Len(result) = Len(w) - 1
                 /\ \A i \in 1..Len(result) : result[i] = w[i + 1]
           /\ (w # <<".">> /\ ~ (Len(w) >= 2 /\ w[1] = "." /\ w[2] = "/")
                 /\ ~ (Len(w) >= 1 /\ w[1] = "/")) => result = w

\* the call "//x" relative to an Address: one separator is removed, one stays
C11_Witness ==
    /\ pd_result # NoneOpt
    /\ pd_relative_to = Address(<<"s", "r", "c", "/", "a", "p", "p">>)
    /\ pd_workdir_in = <<"/", "/", "x">>
    /\ pd_result[1] = <<"/", "x">>

\* C12: whatever the working_directory string and the owning address, the
\* resolved directory never begins with the path separator.
C12_NeverAbsolute ==
    (pd_result # NoneOpt /\ pd_relative_to.type = "Address") =>
        ~ StartsWith(pd_result[1], <<"/">>)

\* ------------------------------------------------------------------------
\* Properties of the output adjustment
\* ------------------------------------------------------------------------
\* the working directory prepare_adhoc_process and run_adhoc_process resolve
ResolvedWorkingDirectory ==
    ParseRelativeDirectory(ap_request[1].working_directory, ap_request[1].address)

AdjustedPaths == {e.path : e \in ap_outcome[1].adjusted_digest}
OutputPaths == {e.path : e \in ap_fallible[1].output_digest}

ReturnedFromWorkingDirectory ==
    /\ ap_pc = "Returned"
    /\ ResolvedWorkingDirectory # <<>>

\* C13 as stated: when the resolved working directory is not empty, no path
\* of the adjusted digest still begins with the working directory, whatever
\* root_output_directory is.
C13_NoPrefixLeft ==
    ReturnedFromWorkingDirectory =>
        \A path \in AdjustedPaths :
            ~ StartsWith(path, ResolvedWorkingDirectory \o <<"/">>)

\* C13, amended: the prefix removed is root_output_directory resolved
\* against the resolved working directory.  For "." it is the working
\* directory: every output is returned at the path it was declared with,
\* the working directory removed once.  For "/" it is empty: every output
\* is returned as written, still beginning with the working directory.
C13_PrefixIsRootOutputDirectory ==
    ReturnedFromWorkingDirectory =>
        /\ ap_request[1].root_output_directory = <<".">> =>
              /\ OutputPaths =
                    {ResolvedWorkingDirectory \o <<"/">> \o path : path \in AdjustedPaths}
              /\ Cardinality(AdjustedPaths) = Cardinality(OutputPaths)
              /\ ap_fallible[1].output_digest # EMPTY_DIGEST =>
                    AdjustedPaths = {<<"o", "u", "t", ".", "t", "x", "t">>, <<"g", "e", "n", "/", "g", "e", "n", ".", "t", "x", "t">>}
        /\ ap_request[1].root_output_directory = <<"/">> =>
              /\ ap_outcome[1].adjusted_digest = ap_fallible[1].output_digest
              /\ \A path \in AdjustedPaths :
                    StartsWith(path, ResolvedWorkingDirectory \o <<"/">>)

\* outputs written under src/app and returned for root_output_directory "/"
C13_Witness ==
    /\ ReturnedFromWorkingDirectory
    /\ ResolvedWorkingDirectory = <<"s", "r", "c", "/", "a", "p", "p">>
    /\ ap_request[1].root_output_directory = <<"/">>
    /\ <<"s", "r", "c", "/", "a", "p", "p", "/", "o", "u", "t", ".", "t", "x", "t">> \in AdjustedPaths

\* the request of the scenario: working directory ".", owning address
\* src/app, root output ".", argv ["echo", "hi"], and its process prepared
EchoScenario ==
    /\ ap_process # NoneOpt
    /\ ap_request[1].working_directory = <<".">>
    /\ ap_request[1].address = Address(<<"s", "r", "c", "/", "a", "p", "p">>)
    /\ ap_request[1].root_output_directory = <<".">>
    /\ ap_request[1].argv = <<<<"e", "c", "h", "o">>, <<"h", "i">>>>

\* C14 as stated: the resolved working directory is src/app and the third
\* argv element is exactly  cd 'src/app' && echo hi
C14_QuotedCd ==
    EchoScenario =>
        /\ ResolvedWorkingDirectory = <<"s", "r", "c", "/", "a", "p", "p">>
        /\ ap_process[1].argv[3] = <<"c", "d", " ", "'", "s", "r", "c", "/", "a", "p", "p", "'", " ", "&", "&", " ", "e", "c", "h", "o", " ", "h", "i">>

\* C14, amended: the resolved working directory is src/app and the argv is
\* (bash, "-c", "cd src/app && echo hi"): shlex.quote leaves src/app, which
\* holds only safe characters, without quotes.
C14_UnquotedCd ==
    EchoScenario =>
        /\ ResolvedWorkingDirectory = <<"s", "r", "c", "/", "a", "p", "p">>
        /\ ap_process[1].argv = <<BashPath, <<"-", "c">>, <<"c", "d", " ", "s", "r", "c", "/", "a", "p", "p", " ", "&", "&", " ", "e", "c", "h", "o", " ", "h", "i">>>>

C14_Witness ==
    /\ EchoScenario
    /\ ap_pc = "EnvironmentPrepared"
    /\ ap_process[1].argv[3] = <<"c", "d", " ", "s", "r", "c", "/", "a", "p", "p", " ", "&", "&", " ", "e", "c", "h", "o", " ", "h", "i">>

\* ------------------------------------------------------------------------
\* Properties of the shims _resolve_runnable_dependencies returns
\* ------------------------------------------------------------------------
LinesOf(content) == Range(Split(content, "\n"))

\* the one declaration fmt -> :formatter was resolved, the run request
\* obtained for it is argv ["/bin/fmt", "-w"] with an empty extra_env, and
\* _resolve_runnable_dependencies returned
FmtScenario ==
    /\ RdOver
    /\ RunnablesOf(RawDependencies) = <<[name |-> "fmt", address |-> ":formatter"]>>
    /\ \A i \in 1..Len(RawDependencies) : Resolvable(RawDependencies[i].address)
    /\ run_request_of[":formatter"].args = <<<<"/", "b", "i", "n", "/", "f", "m", "t">>, <<"-", "w">>>>
    /\ run_request_of[":formatter"].extra_env = <<>>

\* C15: for the single declaration fmt -> :formatter, where the run request
\* of :formatter is argv ["/bin/fmt", "-w"] with no extra_env, the shim set
\* holds a file at path fmt that has the line  exec /bin/fmt -w "$@"  and no
\* export line.
C15_FmtShim ==
    FmtScenario =>
        /\ rd_pc = "returned"
        /\ Len(shims) = 1
        /\ shims[1].path = "fmt"
        /\ <<"e", "x", "e", "c", " ", "/", "b", "i", "n", "/", "f", "m", "t", " ", "-", "w", " ", "\"", "$", "@", "\"">> \in LinesOf(shims[1].content)
        /\ \A line \in LinesOf(shims[1].content) : ~ Contains(line, <<"e", "x", "p", "o", "r", "t">>)

\* ------------------------------------------------------------------------
\* Properties of the result of resolve_execution_environment
\* ------------------------------------------------------------------------
Returned == ree_pc = "done" /\ ree_result.status = "returned"

DeclaresRunnable == RunnablesOf(RawDependencies) # <<>>

\* C16 as stated: the result carries a RunnableDependencies exactly when the
\* request holds a runnable declaration, and None otherwise.
C16_RunnableInfoIffRequested ==
    Returned => (ree_result.runnable_dependencies # NoneOpt <=> DeclaresRunnable)

\* C16, amended: the result carries a RunnableDependencies exactly when the
\* request has an explicit execution_dependencies list, whatever the list
\* holds; it carries None exactly when there is no explicit list.
C16_RunnableInfoIffExplicit ==
    Returned =>
        (ree_result.runnable_dependencies # NoneOpt
            <=> request.execution_dependencies # NoneOpt)

\* an explicit list of address strings only, answered with a
\* RunnableDependencies whose shim digest is empty
C16_Witness ==
    /\ Returned
    /\ RawDependencies # <<>>
    /\ ~ DeclaresRunnable
    /\ ree_result.runnable_dependencies # NoneOpt
    /\ Lookup(ree_result.runnable_dependencies[1].immutable_input_digests,
              ree_result.runnable_dependencies[1].path_component) = EMPTY_DIGEST

\* ========================================================================
\* run.py : the run goal
\* ========================================================================

\* run_subsystem.args: what follows `--` on the command line
PassthroughArgs == {<<>>, <<"--port", "80">>}

\* CompleteEnvironmentVars
CompleteEnv == << <<"PATH", "/usr/bin">>, <<"LANG", "C">> >>

\* The RunRequest the field-set's implementation answers with; each
\* implementation has its own argv and digest, and may override a variable
\* of the ambient environment.
RunRequestOf(field_set) ==
    [digest |-> {field_set.name},
     args |-> <<"./run", field_set.name>>,
     extra_env |-> IF IsPrimaryFieldSet(field_set)
                   THEN << <<"LANG", "en">> >>
                   ELSE <<>>,
     immutable_input_digests |-> NoneOpt,
     append_only_caches |-> NoneOpt]

\* the field-set types that implement RunDebugAdapterRequest; for the others
\* the rule of lines 324-332 raises NotImplementedError
DebugAdapterSupported == {"P1", "S1"}

RunDebugAdapterRequestOf(field_set) ==
    [RunRequestOf(field_set) EXCEPT !.args = <<"./debug", field_set.name>>]

\* target.get(RestartableField).value
Restartable(target) == target.address = 1

\* the exit codes an interactive process can end with
InteractiveExitCodes == {0, 1, 2, 127, 255}

\* lines 309-318
InteractiveProcess(req, target, args) ==
    [argv |-> req.args \o args,
     env |-> UpdateFrom(CompleteEnv, req.extra_env, 1),
     input_digest |-> req.digest,
     run_in_workspace |-> TRUE,
     restartable |-> Restartable(target),
     immutable_input_digests |-> req.immutable_input_digests,
     append_only_caches |-> req.append_only_caches]

\* line 321: Run(result.exit_code)
RunOfSuccess(result) == [exit_code |-> 0]

RunOf(result) == [exit_code |-> result.exit_code]

\* the goal rule is called with its subsystem options; line 287 starts
\* _find_what_to_run
RunInit ==
    /\ mapping = <<>>
    /\ find_i = 0
    /\ primary_target = NoTarget
    /\ primary_target_rfs = NoRfs
    /\ find_result = [NoResult EXCEPT !.kind = "requested"]
    /\ rg_debug_adapter \in BOOLEAN
    /\ rg_args \in PassthroughArgs
    /\ rg_pc = "find"
    /\ rg_request = NoneOpt
    /\ rg_launched = <<>>
    /\ rg_result = NoneOpt
    /\ rg_goal = NoneOpt
    /\ SuIdle
    /\ RdIdle
    /\ ReeIdle
    /\ ApIdle
    /\ PrepIdle
    /\ PdIdle
    /\ ShIdle

\* line 287: _find_what_to_run runs to its end
RunFind ==
    /\ rg_pc = "find"
    /\ FindNext

\* line 287: _find_what_to_run raised, and so does the goal
RunFindRaised ==
    /\ rg_pc = "find"
    /\ find_result.kind \in {"TooManyTargetsException", "AmbiguousImplementationsException"}
    /\ rg_goal' = Some([error |-> find_result.kind])
    /\ rg_pc' = "failed"
    /\ UNCHANGED <<rg_debug_adapter, rg_args, rg_request, rg_launched, rg_result>>
    /\ UNCHANGED <<find_vars, not_rg_vars>>

\* lines 289-295, without a debug adapter
RunGetRunRequest ==
    /\ rg_pc = "find"
    /\ find_result.kind = "ok"
    /\ ~ rg_debug_adapter
    /\ rg_request' = Some(RunRequestOf(find_result.field_set))
    /\ rg_pc' = "request"
    /\ UNCHANGED <<rg_debug_adapter, rg_args, rg_launched, rg_result, rg_goal>>
    /\ UNCHANGED <<find_vars, not_rg_vars>>

\* lines 289-295, with a debug adapter the field-set supports
RunGetDebugAdapterRequest ==
    /\ rg_pc = "find"
    /\ find_result.kind = "ok"
    /\ rg_debug_adapter
    /\ find_result.field_set.name \in DebugAdapterSupported
    /\ rg_request' = Some(RunDebugAdapterRequestOf(find_result.field_set))
    /\ rg_pc' = "request"
    /\ UNCHANGED <<rg_debug_adapter, rg_args, rg_launched, rg_result, rg_goal>>
    /\ UNCHANGED <<find_vars, not_rg_vars>>

\* lines 289-295 and 324-332, with a debug adapter the field-set does not
\* support
RunGetDebugAdapterRequestFail ==
    /\ rg_pc = "find"
    /\ find_result.kind = "ok"
    /\ rg_debug_adapter
    /\ find_result.field_set.name \notin DebugAdapterSupported
    /\ rg_goal' = Some([error |-> "NotImplementedError"])
    /\ rg_pc' = "failed"
    /\ UNCHANGED <<rg_debug_adapter, rg_args, rg_request, rg_launched, rg_result>>
    /\ UNCHANGED <<find_vars, not_rg_vars>>

\* lines 296-318: the InteractiveProcess is built and handed to the engine,
\* up to the Effect of line 307
RunEffect ==
    /\ rg_pc = "request"
    /\ rg_launched' = Append(rg_launched,
                             InteractiveProcess(rg_request[1], find_result.target, rg_args))
    /\ rg_pc' = "effect"
    /\ UNCHANGED <<rg_debug_adapter, rg_args, rg_request, rg_result, rg_goal>>
    /\ UNCHANGED <<find_vars, not_rg_vars>>

\* lines 307-321: the engine answers the Effect with the exit code the
\* process ended with, and the goal returns
RunReturn ==
    /\ rg_pc = "effect"
    /\ \E exit_code \in InteractiveExitCodes :
          /\ rg_result' = Some([exit_code |-> exit_code])
          /\ rg_goal' = Some(RunOf([exit_code |-> exit_code]))
    /\ rg_pc' = "done"
    /\ UNCHANGED <<rg_debug_adapter, rg_args, rg_request, rg_launched>>
    /\ UNCHANGED <<find_vars, not_rg_vars>>

RunNext ==
    \/ RunFind
    \/ RunFindRaised
    \/ RunGetRunRequest
    \/ RunGetDebugAdapterRequest
    \/ RunGetDebugAdapterRequestFail
    \/ RunEffect
    \/ RunReturn

SpecRun == RunInit /\ [][RunNext]_vars

\* ------------------------------------------------------------------------
\* Properties of the run goal
\* ------------------------------------------------------------------------
RunResolved == find_result.kind = "ok" /\ rg_request # NoneOpt

\* the request the goal asked the engine for, from the selected field-set
RequestedFor(field_set) ==
    IF rg_debug_adapter
    THEN RunDebugAdapterRequestOf(field_set)
    ELSE RunRequestOf(field_set)

\* C17: whenever target selection and run-request resolution succeed, the
\* goal returns the exit code of the interactive process it launched, for
\* every exit code, and that process was launched exactly once, running the
\* request of the selected field-set followed by the passthrough arguments;
\* before the goal returns, and when selection or resolution fails, at most
\* one process, respectively none, was launched.
C17_ExitCodePropagates ==
    /\ Len(rg_launched) <= 1
    /\ ~ RunResolved => rg_launched = <<>>
    /\ (RunResolved /\ rg_pc = "done") =>
          /\ Len(rg_launched) = 1
          /\ rg_launched[1].argv = RequestedFor(find_result.field_set).args \o rg_args
          /\ rg_launched[1].input_digest = {find_result.field_set.name}
          /\ SelectedTier(primary_target_rfs[1]) = <<find_result.field_set>>
          /\ rg_goal = Some([exit_code |-> rg_result[1].exit_code])
    /\ rg_pc = "failed" => (rg_goal # NoneOpt /\ "error" \in DOMAIN rg_goal[1])

\* the goal returned a nonzero exit code its one process ended with, after a
\* selection among several targets
C17_Witness ==
    /\ rg_pc = "done"
    /\ Len(mapping) >= 2
    /\ Len(rg_launched) = 1
    /\ rg_result = Some([exit_code |-> 127])
    /\ rg_goal = Some([exit_code |-> 127])


DistinctNames(ds) == \A i, j \in 1..Len(ds) : ds[i].name = ds[j].name => i = j

\* C18: when _resolve_runnable_dependencies returns for a list of N
\* declarations with distinct names, the shim set holds exactly N wrapper
\* scripts, the i-th stored under the i-th declaration's name and wrapping
\* the argv and extra_env of the run request of the i-th declaration's own
\* target.
C18_OneShimPerDeclaration ==
    (rd_pc = "returned" /\ DistinctNames(deps)) =>
        /\ Len(shims) = Len(deps)
        /\ \A i \in 1..Len(deps) :
              shims[i] = ShimOf(deps[i], run_request_of[deps[i].address])

\* ========================================================================
\* adhoc_process_support.py : _runnable_dependency_shim, called on its own
\* ========================================================================
Interpreters == {<<"/", "b", "i", "n", "/", "b", "a", "s", "h">>, <<"/", "u", "s", "r", "/", "b", "i", "n", "/", "e", "n", "v", " ", "s", "h">>}
ShimArgvs == {<<<<"/", "b", "i", "n", "/", "f", "m", "t">>>>, <<<<"/", "b", "i", "n", "/", "f", "m", "t">>, <<"-", "w">>>>, <<<<"m", "y", " ", "t", "o", "o", "l">>, <<"i", "t", "'", "s">>>>}
EnvKeys == {<<"A">>, <<"B">>, <<"M", "Y", " ", "V", "A", "R">>}
EnvValues == {<<"1">>, <<"x", " ", "y">>}

ShInit ==
    /\ sh_bash = <<>>
    /\ sh_args = <<>>
    /\ sh_extra_env = <<>>
    /\ sh_result = NoneOpt
    /\ FindIdle
    /\ SuIdle
    /\ RdIdle
    /\ ReeIdle
    /\ ApIdle
    /\ PrepIdle
    /\ PdIdle
    /\ RgIdle

\* one call, on an extra_env of up to MaxEnvVars variables
ShCall ==
    /\ sh_result = NoneOpt
    /\ \E bash \in Interpreters, args \in ShimArgvs, n \in 0..MaxEnvVars :
       \E ks \in [1..n -> EnvKeys], vs \in [1..n -> EnvValues] :
          LET extra_env == [i \in 1..n |-> <<ks[i], vs[i]>>]
          IN /\ IsDict(extra_env)
             /\ sh_bash' = bash
             /\ sh_args' = args
             /\ sh_extra_env' = extra_env
             /\ sh_result' = Some(RunnableDependencyShim(bash, args, extra_env))
    /\ UNCHANGED not_sh_vars

ShNext == ShCall

SpecShim == ShInit /\ [][ShNext]_vars

\* ------------------------------------------------------------------------
\* Properties of _runnable_dependency_shim
\* ------------------------------------------------------------------------
NonEmptyLines(content) ==
    LET is_not_empty(line) == line # <<>>
    IN SelectSeq(Split(content, "\n"), is_not_empty)

ShebangLine(bash) == <<"#", "!">> \o bash

ExpectedExport(item) == <<"e", "x", "p", "o", "r", "t", " ">> \o ShlexQuote(item[1]) \o <<"=">> \o ShlexQuote(item[2])

ExpectedExec(args) ==
    <<"e", "x", "e", "c", " ">> \o Join(<<" ">>, [i \in 1..Len(args) |-> ShlexQuote(args[i])]) \o <<" ", "\"", "$", "@", "\"">>

\* C19: for every interpreter, argv and extra_env of zero, one or several
\* variables, the script begins with '#!<interpreter>' as its very first
\* characters, then has one 'export KEY=VALUE' line per entry, key and value
\* shell-quoted, in order, then a last line that execs the shell-quoted
\* argv followed by "$@".
C19_ShimLayout ==
    sh_result # NoneOpt =>
        /\ StartsWith(sh_result[1], ShebangLine(sh_bash) \o <<"\n">>)
        /\ NonEmptyLines(sh_result[1]) =
              <<ShebangLine(sh_bash)>>
              \o [i \in 1..Len(sh_extra_env) |-> ExpectedExport(sh_extra_env[i])]
              \o <<ExpectedExec(sh_args)>>

\* the same, for an extra_env of at most one variable
C19_ShimLayoutUpToOneVariable ==
    (sh_result # NoneOpt /\ Len(sh_extra_env) <= 1) =>
        /\ StartsWith(sh_result[1], ShebangLine(sh_bash) \o <<"\n">>)
        /\ NonEmptyLines(sh_result[1]) =
              <<ShebangLine(sh_bash)>>
              \o [i \in 1..Len(sh_extra_env) |-> ExpectedExport(sh_extra_env[i])]
              \o <<ExpectedExec(sh_args)>>


RdReturned == rd_pc = "returned" /\ runnable_dependencies # NoneOpt

\* C20: the digest _resolve_runnable_dependencies returns is the merge of
\* the run digest of every declared runnable and of the digest holding the
\* wrapper scripts, and the path component is derived from that digest's
\* fingerprint alone.
C20_DigestHoldsRunDigestsAndShims ==
    RdReturned =>
        /\ runnables_digest =
              MergeDigests({run_request_of[deps[i].address].digest : i \in 1..Len(deps)}
                           \cup {CreateDigest(shims)})
        /\ runnable_dependencies[1].path_component
              = <<"shims_", Fingerprint(CreateDigest(shims))>>

\* the part of it lines 247-249 do keep: the path component is derived
\* from the fingerprint of the digest of the wrapper scripts alone, and
\* that digest is registered under it
PathComponentOfFingerprint ==
    RdReturned =>
        /\ runnable_dependencies[1].path_component
              = <<"shims_", Fingerprint(CreateDigest(shims))>>
        /\ Lookup(runnable_dependencies[1].immutable_input_digests,
                  runnable_dependencies[1].path_component) = CreateDigest(shims)


\* C21: whenever _resolve_runnable_dependencies succeeds, the returned
\* immutable_input_digests maps the returned path component to the digest of
\* the wrapper scripts, and holds every key/value pair of the
\* immutable_input_digests of the run request of every declared runnable.
C21_ShimDigestRegisteredNothingDropped ==
    RdReturned =>
        LET iid == runnable_dependencies[1].immutable_input_digests
        IN /\ Lookup(iid, runnable_dependencies[1].path_component) = CreateDigest(shims)
           /\ \A i \in 1..Len(deps) :
                 Items(run_request_of[deps[i].address].immutable_input_digests)
                     \subseteq Items(iid)


\* the roots were chosen: the branch of lines 119-153 was left without an
\* error
RootsChosen == ree_pc \in {"roots", "walked", "sourced", "gathered"} \/ Returned

NoRunnables ==
    /\ runnable_dependencies = NoneOpt
    /\ runnables_digest = EMPTY_DIGEST
    /\ deps = <<>>
    /\ shims = <<>>

\* C22: the dependency roots are chosen by three cases.  With an explicit
\* execution_dependencies list, even an empty one, the roots are exactly the
\* plain address strings of the list, whatever `dependencies` is, and no
\* deprecation warning is given.  Otherwise, with `dependencies` present,
\* the owning target is the sole root, the warning is given and there are
\* no runnables.  Otherwise the owning target is the sole root, no warning
\* is given and there are no runnables.
C22_ThreeCases ==
    RootsChosen =>
        /\ transitive # NoneOpt => transitive[1].roots = Range(execution_dependencies)
        /\ IF request.execution_dependencies # NoneOpt
           THEN /\ execution_dependencies = StringsOf(RawDependencies)
                /\ ~ warned
           ELSE IF request.dependencies # NoneOpt
           THEN /\ execution_dependencies = <<request.address>>
                /\ warned
                /\ NoRunnables
           ELSE /\ execution_dependencies = <<request.address>>
                /\ ~ warned
                /\ NoRunnables

\* the three cases ran to their end: an explicit empty list next to a
\* `dependencies` value gives no root
C22_Witness ==
    /\ Returned
    /\ request.execution_dependencies = Some(<<>>)
    /\ request.dependencies # NoneOpt
    /\ transitive[1].roots = {}
    /\ ~ warned

C22_LegacyReached ==
    /\ Returned
    /\ request.execution_dependencies = NoneOpt
    /\ request.dependencies # NoneOpt
    /\ transitive[1].roots = {OwnAddress}
    /\ warned


Walked == ree_pc \in {"walked", "sourced", "gathered"} \/ Returned

\* C23: whenever the owning target is one of the roots of the transitive
\* walk (legacy or default fallback, or an explicit list naming the owning
\* address), it is left out of the targets whose sources are gathered and
\* whose packages are built; every other root and every transitive
\* dependency is among them.
C23_OwningTargetExcluded ==
    (Walked /\ request.address \in transitive[1].roots) =>
        all_dependencies =
            (transitive[1].roots \ {request.address}) \cup transitive[1].dependencies


\* the files of the artifacts built from the packageable targets among ts
ArtifactFiles(ts) == {FileContent(t, <<"p", "k", "g">>, FALSE) : t \in ts \cap {":pkg", ":wheel"}}

\* the source files of the targets ts
SourceFilesOf(ts) == {FileContent(t, <<>>, FALSE) : t \in ts}

\* C24: the digest resolve_execution_environment returns is the merge of
\* exactly the source files of the targets of the dependency closure, the
\* runnables digest (the empty digest when no runnable was resolved) and the
\* artifact of every packageable target of the closure: no artifact is left
\* out and nothing else is merged in.
C24_DigestIsExactMerge ==
    Returned =>
        /\ ree_result.digest =
              SourceFilesOf(all_dependencies) \cup runnables_digest
                  \cup ArtifactFiles(all_dependencies)
        /\ shims = <<>> => runnables_digest = EMPTY_DIGEST
        /\ \A t \in all_dependencies \cap Packageable :
              BuiltPackage(t) \subseteq ree_result.digest

\* a result that merges sources, the run digest of a runnable and two built
\* artifacts
C24_Witness ==
    /\ Returned
    /\ runnables_digest # EMPTY_DIGEST
    /\ {":pkg", ":wheel"} \subseteq all_dependencies
    /\ Cardinality(ArtifactFiles(all_dependencies)) = 2
    /\ ArtifactFiles(all_dependencies) \subseteq ree_result.digest
    /\ runnables_digest \subseteq ree_result.digest


\* ------------------------------------------------------------------------
\* The stages of one adhoc-process invocation
\* ------------------------------------------------------------------------
\* Requested, EnvironmentPrepared, Executing, Completed and OutputAdjusted
\* are the stages of the invocation; Converting, Converted and Adjusting are
\* the parts of Completed at and between the Gets of lines 302 and 321,
\* Returned follows OutputAdjusted.
StageRank(pc) ==
    CASE pc = "idle" -> 0
      [] pc = "Requested" -> 1
      [] pc = "EnvironmentPrepared" -> 2
      [] pc = "Executing" -> 3
      [] pc = "Completed" -> 4
      [] pc = "Converting" -> 5
      [] pc = "Converted" -> 6
      [] pc = "Adjusting" -> 7
      [] pc = "OutputAdjusted" -> 8
      [] pc = "Returned" -> 9
      [] OTHER -> 10

StageStep ==
    /\ ap_pc' # ap_pc =>
          \/ StageRank(ap_pc') = StageRank(ap_pc) + 1
          \/ ap_pc' = "raised" /\ StageRank(ap_pc) < 8
    /\ ap_pc \in {"raised", "Returned"} => UNCHANGED ap_vars
    /\ ap_executions' <= 1
    /\ ap_executions' # ap_executions =>
          ap_pc = "EnvironmentPrepared" /\ ap_process # NoneOpt
    /\ ap_fallible' # ap_fallible => ap_pc = "Executing" /\ ap_executions = 1
    /\ ap_adjusted' # ap_adjusted =>
          ap_pc = "Adjusting" /\ ap_fallible # NoneOpt /\ ap_result # NoneOpt
    /\ ap_outcome' # ap_outcome => ap_pc = "OutputAdjusted" /\ ap_adjusted # NoneOpt
    /\ ap_pc' = "raised" => ap_outcome' = NoneOpt

\* C25: an invocation passes through its stages only in the order
\* Requested, EnvironmentPrepared, Executing, Completed, OutputAdjusted: the
\* process is executed only after it was prepared and at most once, the
\* prefix is stripped only after the execution completed, an
\* AdhocProcessResult is returned only after the output was adjusted, and an
\* invocation that failed has no AdhocProcessResult and goes no further.
C25_StagesInOrder == [][StageStep]_vars

\* an invocation that went through every stage and returned
C25_Witness ==
    /\ ap_pc = "Returned"
    /\ ap_executions = 1
    /\ ap_process # NoneOpt
    /\ ap_fallible # NoneOpt
    /\ ap_fallible[1].exit_code = 1
    /\ ap_adjusted # NoneOpt
    /\ ap_outcome # NoneOpt


\* ------------------------------------------------------------------------
\* Properties of _output_at_build_root
\* ------------------------------------------------------------------------
EndsWith(s, suffix) ==
    Len(suffix) <= Len(s) /\ SubSeq(s, Len(s) - Len(suffix) + 1, Len(s)) = suffix

\* each path of `after` is the path of `before` at the same place, under wd
PrefixedBy(after, before, wd) ==
    /\ Len(after) = Len(before)
    /\ \A i \in 1..Len(before) :
          /\ StartsWith(after[i], wd)
          /\ EndsWith(after[i], before[i])
          /\ Len(after[i]) > Len(before[i])

QuotedArgv(argv) == Join(<<" ">>, [i \in 1..Len(argv) |-> ShlexQuote(argv[i])])

\* C26: the rewritten process has no working_directory and an argv of
\* exactly three elements, the shell, '-c' and a command string.  When the
\* working directory is not empty every declared output file and directory
\* is prefixed with it and the command begins with a cd into the
\* shell-quoted working directory; when it is empty the declared outputs are
\* unchanged and the command has no cd.  Environment, input digest, timeout,
\* caches and immutable inputs are unchanged.
C26_RewrittenAtBuildRoot ==
    ap_process # NoneOpt =>
        LET before == PreparedProcess(ap_request[1])
            after == ap_process[1]
            wd == before.working_directory[1]
        IN /\ after.working_directory = NoneOpt
           /\ Len(after.argv) = 3
           /\ after.argv[1] = BashPath
           /\ after.argv[2] = <<"-", "c">>
           /\ IF wd # <<>>
              THEN /\ PrefixedBy(after.output_files, before.output_files, wd)
                   /\ PrefixedBy(after.output_directories, before.output_directories, wd)
                   /\ after.argv[3] = <<"c", "d", " ">> \o ShlexQuote(wd) \o <<" ", "&", "&", " ">>
                                         \o QuotedArgv(before.argv)
              ELSE /\ after.output_files = before.output_files
                   /\ after.output_directories = before.output_directories
                   /\ after.argv[3] = QuotedArgv(before.argv)
                   /\ ~ Contains(after.argv[3], <<"c", "d", " ">>)
           /\ after.env = before.env
           /\ after.input_digest = before.input_digest
           /\ after.timeout_seconds = before.timeout_seconds
           /\ after.append_only_caches = before.append_only_caches
           /\ after.immutable_input_digests = before.immutable_input_digests
           /\ after.description = before.description

\* a process prepared for the working directory src/app/sub
C26_Witness ==
    /\ ap_process # NoneOpt
    /\ PreparedProcess(ap_request[1]).working_directory = Some(<<"s", "r", "c", "/", "a", "p", "p", "/", "s", "u", "b">>)
    /\ ap_process[1].working_directory = NoneOpt
    /\ ap_process[1].output_files = <<<<"s", "r", "c", "/", "a", "p", "p", "/", "s", "u", "b", "/", "o", "u", "t", ".", "t", "x", "t">>>>
    /\ ap_process[1].argv[3] = <<"c", "d", " ", "s", "r", "c", "/", "a", "p", "p", "/", "s", "u", "b", " ", "&", "&", " ", "e", "c", "h", "o", " ", "'", "h", "i", " ", "t", "h", "e", "r", "e", "'">>


\* ========================================================================
\* adhoc_process_support.py : prepare_adhoc_process on the forms a
\* working_directory can be written in
\* ========================================================================
WorkingDirectoryForms ==
    {<<>>, <<".">>, <<".", "/">>, <<".", "/", "s", "u", "b">>, <<".", "/", "s", "u", "b", "/">>, <<"/", "a", "b", "s">>, <<"/", "s", "r", "c", "/", "a", "p", "p", "/">>, <<"o", "u", "t">>, <<"o", "u", "t", "/">>,
     <<"s", "r", "c", "/", "a", "p", "p", "/", "s", "u", "b">>}

InputTrees ==
    {EMPTY_DIGEST,
     {FileContent(<<"s", "r", "c", "/", "a", "p", "p", "/", "s", "u", "b", "/", "i", "n", ".", "t", "x", "t">>, <<>>, FALSE)},
     {FileContent(<<"o", "u", "t", "/", "i", "n", ".", "t", "x", "t">>, <<>>, FALSE), FileContent(<<"s", "u", "b", "/", "i", "n", ".", "t", "x", "t">>, <<>>, FALSE)},
     {Directory(<<"s", "r", "c", "/", "a", "p", "p">>), FileContent(<<"a", "b", "s", "/", "i", "n", ".", "t", "x", "t">>, <<>>, FALSE)}}

\* a caller asks for Get(Process, AdhocProcessRequest)
PrepRequest ==
    /\ ap_pc = "idle"
    /\ \E r \in AdhocProcessRequests, wd \in WorkingDirectoryForms, tree \in InputTrees :
          ap_request' = Some([r EXCEPT !.working_directory = wd, !.input_digest = tree])
    /\ ap_pc' = "Requested"
    /\ UNCHANGED <<ap_process, ap_executions, ap_fallible, ap_result, ap_adjusted,
                   ap_log, ap_outcome, ap_error>>
    /\ UNCHANGED not_ap_vars

PrepNext ==
    \/ PrepRequest \/ PrepStart \/ PrepEnvironmentVars \/ PrepSnapshot
    \/ PrepCreateDigest \/ PrepReturn \/ PrepGetFail

SpecPrepare == ApInit /\ [][PrepNext]_vars

\* ------------------------------------------------------------------------
\* Properties of prepare_adhoc_process
\* ------------------------------------------------------------------------
\* the directory a path names is among dirs, with or without a trailing
\* separator
WithoutTrailingSeparator(path) ==
    IF path # <<>> /\ path[Len(path)] = "/" THEN SubSeq(path, 1, Len(path) - 1) ELSE path

AlreadyAmong(dirs, wd) ==
    \E d \in dirs : WithoutTrailingSeparator(d) = WithoutTrailingSeparator(wd)

\* C27: after prepare_adhoc_process the resolved working directory is in the
\* input tree of the process.  When it is empty or already among the
\* directories of the input snapshot, the input digest is the request's,
\* merged with the empty digest only; otherwise it is the request's plus an
\* empty directory entry for exactly the resolved working directory.  This
\* holds for every form of working_directory, './' and a trailing separator
\* included.
C27_WorkingDirectoryExists ==
    ap_process # NoneOpt =>
        LET req == ap_request[1]
            wd == ParseRelativeDirectory(req.working_directory, req.address)
            before == req.input_digest
            after == ap_process[1].input_digest
        IN /\ IF wd = <<>> \/ AlreadyAmong(SnapshotDirs(before), wd)
              THEN after = before
              ELSE /\ after \ before = {[path |-> wd, is_dir |-> TRUE]}
                   /\ before \subseteq after
           /\ wd # <<>> => AlreadyAmong(SnapshotDirs(after), wd)

\* the same, for a resolved working directory without a trailing separator
C27_WorkingDirectoryExistsNoTrailingSeparator ==
    ap_process # NoneOpt =>
        LET req == ap_request[1]
            wd == ParseRelativeDirectory(req.working_directory, req.address)
            before == req.input_digest
            after == ap_process[1].input_digest
        IN wd = WithoutTrailingSeparator(wd) =>
              /\ IF wd = <<>> \/ wd \in SnapshotDirs(before)
                 THEN after = before
                 ELSE /\ after \ before = {[path |-> wd, is_dir |-> TRUE]}
                      /\ before \subseteq after
              /\ wd # <<>> => wd \in SnapshotDirs(after)


\* ------------------------------------------------------------------------
\* Properties of the logging of run_adhoc_process
\* ------------------------------------------------------------------------
ConfiguredMessages == OrEmpty(ap_request[1].log_on_process_errors)
ObservedExitCode == ap_fallible[1].exit_code

ErrorsLogged == SelectSeq(ap_log, LAMBDA entry : entry[1] = "error")
OutputLogged == SelectSeq(ap_log, LAMBDA entry : entry[1] \in {"info", "warning"})

\* the log is first the error messages, then the captured output
ErrorsFirst == ap_log = ErrorsLogged \o OutputLogged

\* nothing is logged before the process has completed, the error message is
\* logged before the output is adjusted, and the captured output is logged
\* only when log_output is set
LoggedInOrder ==
    /\ StageRank(ap_pc) <= 4 => ap_log = <<>>
    /\ ap_pc \in {"Converting", "Converted"} =>
          (ap_adjusted = NoneOpt /\ OutputLogged = <<>>)
    /\ ap_pc = "Adjusting" => ap_adjusted = NoneOpt
    /\ (ap_pc = "raised" /\ ap_fallible = NoneOpt) => ap_log = <<>>
    /\ (ap_pc = "raised" /\ ap_result = NoneOpt) => OutputLogged = <<>>
    /\ ErrorsFirst
    /\ (ap_request # NoneOpt /\ ~ ap_request[1].log_output) => OutputLogged = <<>>

Logged ==
    \/ ap_pc \in {"Converting", "Converted", "Adjusting", "OutputAdjusted", "Returned"}
    \/ ap_pc = "raised" /\ ap_fallible # NoneOpt

\* C28 as stated: after the process has executed, the message configured
\* for the observed exit code is logged whenever log_on_process_errors has
\* an entry for that exit code, and no message is logged when it has none;
\* it is logged after the execution and before the output digest is
\* adjusted, and stdout/stderr are logged only when log_output is set.
C28_LoggedIffEntry ==
    /\ LoggedInOrder
    /\ Logged =>
          IF ObservedExitCode \in Keys(ConfiguredMessages)
          THEN ErrorsLogged = << <<"error", Lookup(ConfiguredMessages, ObservedExitCode)>> >>
          ELSE ErrorsLogged = <<>>

\* C28, amended: the message is logged whenever log_on_process_errors has an
\* entry for the observed exit code whose message is not empty; with no
\* entry, or an entry with an empty message, nothing is logged as an error.
\* The order and the log_output condition are as stated.
C28_LoggedIffNonEmptyEntry ==
    /\ LoggedInOrder
    /\ Logged =>
          IF /\ ObservedExitCode \in Keys(ConfiguredMessages)
             /\ Lookup(ConfiguredMessages, ObservedExitCode) # ""
          THEN ErrorsLogged = << <<"error", Lookup(ConfiguredMessages, ObservedExitCode)>> >>
          ELSE ErrorsLogged = <<>>

\* exit code 1 with the message "failed" configured: logged before the
\* adjustment, followed by the captured output
C28_Witness ==
    /\ ap_pc = "OutputAdjusted"
    /\ ObservedExitCode = 1
    /\ ap_request[1].log_output
    /\ ap_log = << <<"error", "failed">>, <<"info", "hi there\n">>, <<"warning", "warning\n">> >>


\* ------------------------------------------------------------------------
\* _find_what_to_run as a function of the order of the mapping
\* ------------------------------------------------------------------------
\* lines 238-276 run on the items m from the i-th on
RECURSIVE FindLoop(_, _, _, _)
FindLoop(m, i, p_target, p_rfs) ==
    IF i > Len(m)
    THEN ChooseFieldSet(p_target, p_rfs)
    ELSE LET target == m[i][1]
             rfs == RankedFieldSets(m[i][2])
         IN IF TakesOver(p_target, p_rfs, rfs)
            THEN FindLoop(m, i + 1, target, <<rfs>>)
            ELSE IF IsTie(p_rfs, rfs)
            THEN Raise("TooManyTargetsException")
            ELSE FindLoop(m, i + 1, p_target, p_rfs)

FindWhatToRun(m) == FindLoop(m, 1, NoTarget, NoRfs)

\* the iteration orders of the same mapping
Reorderings(m) ==
    {[i \in 1..Len(m) |-> m[p[i]]] :
        p \in {q \in [1..Len(m) -> 1..Len(m)] : \A i, j \in 1..Len(m) : q[i] = q[j] => i = j}}

\* the call on the mapping is the loop run to its end
FindIsFindWhatToRun == FindDone => find_result = FindWhatToRun(mapping)

\* C29: the outcome depends on the targets and their field-sets only: on
\* every other iteration order of the same mapping the call returns the same
\* (field_set, target) pair, or fails with the same kind of error.
C29_OrderIndependent ==
    FindDone => \A m \in Reorderings(mapping) : FindWhatToRun(m) = find_result


\* ------------------------------------------------------------------------
\* The round trip of output paths through one invocation
\* ------------------------------------------------------------------------
\* p declared under the working directory wd
Under(wd, p) == IF wd = <<>> THEN p ELSE wd \o <<"/">> \o p

RootOutputIsDot == ap_request # NoneOpt /\ ap_request[1].root_output_directory = <<".">>

\* C30: with root_output_directory '.', for every working_directory and
\* every declared relative output p, prepare_adhoc_process declares the
\* output at <resolved working directory>/p and run_adhoc_process strips
\* that same resolved working directory: the directory resolved for the
\* process and the prefix stripped are the same string, and the adjusted
\* digest has every output at p.
C30_RoundTrip ==
    (RootOutputIsDot /\ ap_process # NoneOpt) =>
        LET req == ap_request[1]
            wd == PreparedProcess(req).working_directory[1]
        IN /\ RootOutputDirectory(req) = wd
           /\ ap_process[1].output_files =
                 [i \in 1..Len(req.output_files) |-> Under(wd, req.output_files[i])]
           /\ ap_process[1].output_directories =
                 [i \in 1..Len(req.output_directories) |->
                     Under(wd, req.output_directories[i])]
           /\ ap_pc = "Returned" =>
                 /\ OutputPaths = {Under(wd, path) : path \in AdjustedPaths}
                 /\ Cardinality(AdjustedPaths) = Cardinality(OutputPaths)
                 /\ ap_fallible[1].output_digest # EMPTY_DIGEST =>
                       /\ Under(wd, <<"o", "u", "t", ".", "t", "x", "t">>) \in OutputPaths
                       /\ AdjustedPaths = {<<"o", "u", "t", ".", "t", "x", "t">>, <<"g", "e", "n", "/", "g", "e", "n", ".", "t", "x", "t">>}

\* './sub' under the address src/app: written at src/app/sub/out.txt,
\* returned at out.txt
C30_Witness ==
    /\ RootOutputIsDot
    /\ ap_pc = "Returned"
    /\ ap_request[1].working_directory = <<".", "/", "s", "u", "b">>
    /\ ap_request[1].address = Address(<<"s", "r", "c", "/", "a", "p", "p">>)
    /\ <<"s", "r", "c", "/", "a", "p", "p", "/", "s", "u", "b", "/", "o", "u", "t", ".", "t", "x", "t">> \in OutputPaths
    /\ <<"o", "u", "t", ".", "t", "x", "t">> \in AdjustedPaths
    /\ <<"s", "r", "c", "/", "a", "p", "p", "/", "s", "u", "b", "/", "o", "u", "t", ".", "t", "x", "t">> \notin AdjustedPaths

====
